---- MODULE Spec2Model ----
(***************************************************************************)
(* State-machine model of the mobile-mapping agent backend:                *)
(*   backend/agent_service.py  MappingAgent (execute_tool, ask,            *)
(*                             clear_history)                              *)
(*   backend/main.py           the /ask, /clear, /nearby/images and        *)
(*                             /project/features endpoints served by the   *)
(*                             process-wide agent                          *)
(*   backend/models/domain.py  Feature, ImagePosition, Campaign            *)
(*                                                                         *)
(* Conventions for Python values:                                          *)
(*   a dict is a record (key in d  <=>  key \in DOMAIN d);                 *)
(*   None is the record [none |-> TRUE];                                   *)
(*   a str of free text is [text |-> s], s a sequence of tokens, where the *)
(*   token "<function" stands for one occurrence of that substring and " " *)
(*   for one whitespace character;                                         *)
(*   a list is a sequence.                                                 *)
(***************************************************************************)
EXTENDS Integers, Sequences, FiniteSets, TLC

VARIABLES
    campaign,              \* MappingAgent.campaign (the cached Campaign)
    conversation_history,  \* MappingAgent.conversation_history
    pc,                    \* per request worker: position inside ask()
    question,              \* per worker: ask()'s argument
    messages,              \* per worker: ask()'s local list `messages`
    message,               \* per worker: ask()'s local `message` (last reply)
    usage,                 \* per worker: response.usage of the last reply
    tool_calls,            \* per worker: message.tool_calls of round 1
    idx,                   \* per worker: number of tool calls already looped over
    tool_uses,             \* per worker: ask()'s local list `tool_uses`
    map_commands,          \* per worker: ask()'s local list `map_commands`
    requests,              \* per worker: the reasoner calls made by this turn
    response,              \* per worker: what the endpoint answered
    before,                \* per worker: conversation_history when the turn began
    clearedLen,            \* entries dropped by the last clear, -1 once appended to
    turns,                 \* number of ask() calls begun so far
    cached_campaign,       \* MappingService._cached_campaign
    loads,                 \* number of load_real_campaign() runs so far
    store_pc,              \* per caller: position inside get_campaign()
    got,                   \* per caller: what its last get_campaign() returned
    lookups,               \* number of get_campaign() calls begun so far
    exchange               \* the last /nearby/images or /project/features request
                           \* and the answer it got

\* the state of service.py, which ask() and clear_history() never touch
storeVars == <<cached_campaign, loads, store_pc, got, lookups>>

vars == <<campaign, conversation_history, pc, question, messages, message, usage,
          tool_calls, idx, tool_uses, map_commands, requests, response, before,
          clearedLen, turns, cached_campaign, loads, store_pc, got, lookups,
          exchange>>

(***************************************************************************)
(* Bounds of the model.                                                    *)
(***************************************************************************)
MaxTurns == 3
MaxToolCalls == 2
MaxTextLen == 2
MaxLongTurns == 7
MaxSharedTurns == 2
NumWorkers == 2
MaxItems == 4
MaxRawImages == 101
MaxRawFeatures == 1
MaxLookups == 4

Workers == 1..NumWorkers

(***************************************************************************)
(* Python values.                                                          *)
(***************************************************************************)
None == [none |-> TRUE]

EmptyDict == [k \in {} |-> k]

Text(s) == [text |-> s]

Marker == "<function"

Whitespace == {" "}

Alphabet == {"a", " ", Marker}

SeqsUpTo(S, n) == UNION {[1..k -> S] : k \in 0..n}

Texts == SeqsUpTo(Alphabet, MaxTextLen)

MinOf(S) == CHOOSE x \in S : \A y \in S : x <= y

MaxOf(S) == CHOOSE x \in S : \A y \in S : x >= y

\* str.split("<function")[0]: the part before the first marker.
SplitFirst(s) ==
    LET at == {i \in 1..Len(s) : s[i] = Marker}
    IN  IF at = {} THEN s ELSE SubSeq(s, 1, MinOf(at) - 1)

\* str.strip(): leading and trailing whitespace removed.
Strip(s) ==
    LET ink == {i \in 1..Len(s) : s[i] \notin Whitespace}
    IN  IF ink = {} THEN <<>> ELSE SubSeq(s, MinOf(ink), MaxOf(ink))

\* message.content.split("<function")[0].strip()
CleanResponse(s) == Strip(SplitFirst(s))

\* Python truthiness of message.content (None and "" are falsy).
Truthy(content) == content # None /\ content.text # <<>>

\* mutant of LastN: the first n entries, s[:n]
FirstN(s, n) == SubSeq(s, 1, IF Len(s) < n THEN Len(s) ELSE n)

\* list[-n:]
LastN(s, n) == IF Len(s) <= n THEN s ELSE SubSeq(s, Len(s) - n + 1, Len(s))

\* json.dumps(value): the serialized form, kept apart from the value itself.
JsonDumps(v) == [json |-> v]

(***************************************************************************)
(* json.loads(tool_call.function.arguments).  An arguments string is       *)
(* [kind |-> "malformed"] (not JSON: json.loads raises), [kind |->         *)
(* "array"] (JSON, but no object) or [kind |-> "object", obj |-> dict].    *)
(***************************************************************************)
Raised(e) == [raised |-> TRUE, error |-> e]

Returned(v) == [raised |-> FALSE, value |-> v]

JsonLoads(a) ==
    CASE a.kind = "malformed" -> Raised(<<"Expecting value: line 1 column 1 (char 0)">>)
      [] a.kind = "array"     -> Returned([array |-> <<>>])
      [] OTHER                -> Returned(a.obj)

IsDict(v) == "array" \notin DOMAIN v

\* dict.get(key, default)
Get(d, k, default) == IF k \in DOMAIN d THEN d[k] ELSE default

(***************************************************************************)
(* The Campaign (models/domain.py).  Features and images are lists, kept   *)
(* in load order.  Init holds the Campaign of the specification's scenario *)
(* plus one feature no image sees and one image that sees nothing.         *)
(***************************************************************************)
Feature(i, t, c, imgs) == [id |-> i, type |-> t, condition |-> c, image_ids |-> imgs]

ImagePosition(i, fids, coords) == [id |-> i, feature_ids |-> fids, coordinates |-> coords]

LoadedCampaign ==
    [name     |-> "track_2020",
     features |-> << Feature(1, "fire_hydrant", "damaged", <<10, 11>>),
                     Feature(2, "fire_hydrant", "good", <<11>>),
                     Feature(3, "traffic_sign", "good", <<>>) >>,
     images   |-> << ImagePosition(10, <<1>>, <<0, 0>>),
                     ImagePosition(11, <<1, 2>>, <<0, 45>>),
                     ImagePosition(12, <<>>, <<0, 90>>) >>]

\* Campaign.total_features / Campaign.total_images
total_features(c) == Len(c.features)

total_images(c) == Len(c.images)

Range(s) == {s[i] : i \in 1..Len(s)}

\* [f.id for f in fs]
Ids(fs) == [i \in 1..Len(fs) |-> fs[i].id]

RECURSIVE SortedSeq(_)
\* list(a set of ints): CPython iterates a set of small ints in ascending order.
SortedSeq(S) == IF S = {} THEN <<>> ELSE <<MinOf(S)>> \o SortedSeq(S \ {MinOf(S)})

(***************************************************************************)
(* The filter shared by show_features (sentinel "all" for the type) and    *)
(* find_images_with_features / find_richest_image (sentinel "any").        *)
(***************************************************************************)
\* mutant of FilterFeatures: "all" and "any" both lift the type filter
FilterFeaturesEitherSentinel(fs, feature_type, condition, typeSentinel) ==
    LET byType == IF feature_type \notin {"all", "any"}
                  THEN SelectSeq(fs, LAMBDA f : f.type = feature_type)
                  ELSE fs
    IN  IF condition # "any"
        THEN SelectSeq(byType, LAMBDA f : f.condition = condition)
        ELSE byType

FilterFeatures(fs, feature_type, condition, typeSentinel) ==
    LET byType == IF feature_type # typeSentinel
                  THEN SelectSeq(fs, LAMBDA f : f.type = feature_type)
                  ELSE fs
    IN  IF condition # "any"
        THEN SelectSeq(byType, LAMBDA f : f.condition = condition)
        ELSE byType

\* set(img.feature_ids) & feature_ids
ImgFeatures(img, feature_ids) == Range(img.feature_ids) \cap feature_ids

RECURSIVE MatchingImagesAll(_, _)
\* mutant of MatchingImages: an image that sees none of the features is listed too
MatchingImagesAll(imgs, feature_ids) ==
    IF imgs = <<>> THEN <<>>
    ELSE LET img == Head(imgs)
             hit == ImgFeatures(img, feature_ids)
         IN  << [image_id |-> img.id, feature_count |-> Cardinality(hit),
                 coordinates |-> img.coordinates] >>
             \o MatchingImagesAll(Tail(imgs), feature_ids)

RECURSIVE MatchingImages(_, _)
\* the loop of find_images_with_features over campaign.images
MatchingImages(imgs, feature_ids) ==
    IF imgs = <<>> THEN <<>>
    ELSE LET img == Head(imgs)
             hit == ImgFeatures(img, feature_ids)
         IN  (IF hit # {}
              THEN << [image_id |-> img.id, feature_count |-> Cardinality(hit),
                       coordinates |-> img.coordinates] >>
              ELSE <<>>) \o MatchingImages(Tail(imgs), feature_ids)

RECURSIVE RichestScanLastWins(_, _, _, _)
\* mutant of RichestScan: an equal count replaces the best so far
RichestScanLastWins(imgs, feature_ids, richest_image, max_count) ==
    IF imgs = <<>> THEN richest_image
    ELSE LET img == Head(imgs)
             hit == ImgFeatures(img, feature_ids)
         IN  IF Cardinality(hit) >= max_count
             THEN RichestScanLastWins(Tail(imgs), feature_ids,
                              [image_id |-> img.id, feature_count |-> Cardinality(hit),
                               coordinates |-> img.coordinates,
                               feature_ids |-> SortedSeq(hit)],
                              Cardinality(hit))
             ELSE RichestScanLastWins(Tail(imgs), feature_ids, richest_image, max_count)

RECURSIVE RichestScan(_, _, _, _)
\* the loop of find_richest_image: a strictly larger count replaces the best so far
RichestScan(imgs, feature_ids, richest_image, max_count) ==
    IF imgs = <<>> THEN richest_image
    ELSE LET img == Head(imgs)
             hit == ImgFeatures(img, feature_ids)
         IN  IF Cardinality(hit) > max_count
             THEN RichestScan(Tail(imgs), feature_ids,
                              [image_id |-> img.id, feature_count |-> Cardinality(hit),
                               coordinates |-> img.coordinates,
                               feature_ids |-> SortedSeq(hit)],
                              Cardinality(hit))
             ELSE RichestScan(Tail(imgs), feature_ids, richest_image, max_count)

(***************************************************************************)
(* MappingAgent.execute_tool, one operator per branch.  Each yields        *)
(* Returned(result dict) or Raised(str(e)) for the exception the branch    *)
(* lets escape.  An error text is a sequence of string pieces.             *)
(***************************************************************************)
NoGet == <<"'list' object has no attribute 'get'">>

\* mutant of ShowFeatures: an absent feature_type is read as "any"
ShowFeaturesDefaultAny(c, tool_input) ==
    IF ~IsDict(tool_input) THEN Raised(NoGet)
    ELSE LET feature_type == Get(tool_input, "feature_type", "any")
             condition    == Get(tool_input, "condition", "any")
             color        == Get(tool_input, "color", "#FF0000")
             filtered     == FilterFeatures(c.features, feature_type, condition, "all")
             feature_ids  == Ids(filtered)
         IN  Returned([count       |-> Len(filtered),
                       feature_ids |-> feature_ids,
                       map_command |-> [command     |-> "highlight_features",
                                        feature_ids |-> feature_ids,
                                        color       |-> color,
                                        label       |-> [title_of |-> feature_type]],
                       message     |-> [found_and_highlighted |-> Len(filtered),
                                        feature_type |-> feature_type]])

ShowFeatures(c, tool_input) ==
    IF ~IsDict(tool_input) THEN Raised(NoGet)
    ELSE LET feature_type == Get(tool_input, "feature_type", "all")
             condition    == Get(tool_input, "condition", "any")
             color        == Get(tool_input, "color", "#FF0000")
             filtered     == FilterFeatures(c.features, feature_type, condition, "all")
             feature_ids  == Ids(filtered)
         IN  Returned([count       |-> Len(filtered),
                       feature_ids |-> feature_ids,
                       map_command |-> [command     |-> "highlight_features",
                                        feature_ids |-> feature_ids,
                                        color       |-> color,
                                        label       |-> [title_of |-> feature_type]],
                       message     |-> [found_and_highlighted |-> Len(filtered),
                                        feature_type |-> feature_type]])

QueryImages(c) ==
    Returned([count   |-> Len(c.images),
              message |-> [image_positions |-> Len(c.images)]])

\* mutant of FindImagesWithFeatures: the image command goes with the feature command
FindImagesBothCommands(c, tool_input) ==
    IF ~IsDict(tool_input) THEN Raised(NoGet)
    ELSE LET feature_type       == Get(tool_input, "feature_type", "any")
             condition          == Get(tool_input, "condition", "any")
             filtered_features  == FilterFeatures(c.features, feature_type, condition, "any")
             feature_ids        == Range(Ids(filtered_features))
             matching_images    == MatchingImages(c.images, feature_ids)
             matching_image_ids == [i \in 1..Len(matching_images) |->
                                        matching_images[i].image_id]
             cmds == (IF filtered_features # <<>>
                      THEN << [command     |-> "highlight_features",
                               feature_ids |-> Ids(filtered_features),
                               color       |-> "#00FF00",
                               label       |-> [features_of |-> feature_type]] >>
                      ELSE <<>>)
                     \o
                     (IF filtered_features # <<>>
                      THEN << [command   |-> "highlight_image",
                               image_ids |-> matching_image_ids,
                               color     |-> "#4A90E2",
                               label     |-> [images_with |-> feature_type]] >>
                      ELSE <<>>)
         IN  Returned([image_count   |-> Len(matching_images),
                       images        |-> matching_images,
                       feature_count |-> Len(filtered_features),
                       map_commands  |-> cmds,
                       message       |-> [found_images |-> Len(matching_images),
                                          matching_features |-> Len(filtered_features)]])

FindImagesWithFeatures(c, tool_input) ==
    IF ~IsDict(tool_input) THEN Raised(NoGet)
    ELSE LET feature_type       == Get(tool_input, "feature_type", "any")
             condition          == Get(tool_input, "condition", "any")
             filtered_features  == FilterFeatures(c.features, feature_type, condition, "any")
             feature_ids        == Range(Ids(filtered_features))
             matching_images    == MatchingImages(c.images, feature_ids)
             matching_image_ids == [i \in 1..Len(matching_images) |->
                                        matching_images[i].image_id]
             cmds == (IF filtered_features # <<>>
                      THEN << [command     |-> "highlight_features",
                               feature_ids |-> Ids(filtered_features),
                               color       |-> "#00FF00",
                               label       |-> [features_of |-> feature_type]] >>
                      ELSE <<>>)
                     \o
                     (IF matching_image_ids # <<>>
                      THEN << [command   |-> "highlight_image",
                               image_ids |-> matching_image_ids,
                               color     |-> "#4A90E2",
                               label     |-> [images_with |-> feature_type]] >>
                      ELSE <<>>)
         IN  Returned([image_count   |-> Len(matching_images),
                       images        |-> matching_images,
                       feature_count |-> Len(filtered_features),
                       map_commands  |-> cmds,
                       message       |-> [found_images |-> Len(matching_images),
                                          matching_features |-> Len(filtered_features)]])

\* mutant of FindRichestImage: the message is formatted before the None test
FindRichestImageEagerMessage(c, tool_input) ==
    IF ~IsDict(tool_input) THEN Raised(NoGet)
    ELSE LET feature_type      == Get(tool_input, "feature_type", "any")
             condition         == Get(tool_input, "condition", "any")
             filtered_features == FilterFeatures(c.features, feature_type, condition, "any")
             feature_ids       == Range(Ids(filtered_features))
             richest_image     == RichestScan(c.images, feature_ids, None, 0)
             map_command       == IF richest_image # None
                                  THEN [command     |-> "highlight_features",
                                        feature_ids |-> richest_image.feature_ids,
                                        color       |-> "#FF00FF",
                                        label       |-> [image |-> richest_image.image_id]]
                                  ELSE None
         IN  IF richest_image = None
             THEN Raised(<<"'NoneType' object is not subscriptable">>)
             ELSE
             Returned([richest_image |-> richest_image,
                       map_command   |-> map_command,
                       message       |-> IF richest_image # None
                                         THEN [has_the_most |-> richest_image.image_id,
                                               max_count |-> richest_image.feature_count]
                                         ELSE [no_matching_images |-> TRUE]])

FindRichestImage(c, tool_input) ==
    IF ~IsDict(tool_input) THEN Raised(NoGet)
    ELSE LET feature_type      == Get(tool_input, "feature_type", "any")
             condition         == Get(tool_input, "condition", "any")
             filtered_features == FilterFeatures(c.features, feature_type, condition, "any")
             feature_ids       == Range(Ids(filtered_features))
             richest_image     == RichestScan(c.images, feature_ids, None, 0)
             map_command       == IF richest_image # None
                                  THEN [command     |-> "highlight_features",
                                        feature_ids |-> richest_image.feature_ids,
                                        color       |-> "#FF00FF",
                                        label       |-> [image |-> richest_image.image_id]]
                                  ELSE None
         IN  Returned([richest_image |-> richest_image,
                       map_command   |-> map_command,
                       message       |-> IF richest_image # None
                                         THEN [has_the_most |-> richest_image.image_id,
                                               max_count |-> richest_image.feature_count]
                                         ELSE [no_matching_images |-> TRUE]])

\* mutant of HighlightOnMap: the ids are not validated
HighlightOnMapLenient(tool_input) ==
    IF ~IsDict(tool_input) THEN Raised(NoGet)
    ELSE LET feature_ids == Get(tool_input, "feature_ids", <<>>)
         IN  Returned([map_command |-> [command     |-> "highlight_features",
                                        feature_ids |-> feature_ids,
                                        color       |-> Get(tool_input, "color", "#FF0000"),
                                        label       |-> Get(tool_input, "label", None)],
                       message     |-> [highlighted |-> Len(feature_ids)]])

HighlightOnMap(tool_input) ==
    IF ~IsDict(tool_input) THEN Raised(NoGet)
    ELSE LET feature_ids == Get(tool_input, "feature_ids", <<>>)
         IN  IF feature_ids = <<>>
             THEN Returned([error |-> <<"No feature_ids provided. You must first call ",
                                        "query_features to get feature IDs, then pass ",
                                        "those IDs to highlight_on_map.">>])
             ELSE Returned([map_command |-> [command     |-> "highlight_features",
                                             feature_ids |-> feature_ids,
                                             color       |-> Get(tool_input, "color", "#FF0000"),
                                             label       |-> Get(tool_input, "label", None)],
                            message     |-> [highlighted |-> Len(feature_ids)]])

\* mutant of ShowStatistics: a missing field is read as empty
ShowStatisticsDefaults(tool_input) ==
    IF ~IsDict(tool_input)
    THEN Raised(<<"list indices must be integers or slices, not str">>)
    ELSE Returned([map_command |-> [command |-> "show_statistics",
                                    title   |-> Get(tool_input, "title", ""),
                                    stats   |-> Get(tool_input, "stats", EmptyDict)],
                   message     |-> [displayed_statistics |-> Get(tool_input, "title", "")]])

ShowStatistics(tool_input) ==
    CASE ~IsDict(tool_input) -> Raised(<<"list indices must be integers or slices, not str">>)
      [] IsDict(tool_input) /\ "title" \notin DOMAIN tool_input -> Raised(<<"'title'">>)
      [] IsDict(tool_input) /\ "title" \in DOMAIN tool_input
                            /\ "stats" \notin DOMAIN tool_input -> Raised(<<"'stats'">>)
      [] OTHER -> Returned([map_command |-> [command |-> "show_statistics",
                                             title   |-> tool_input["title"],
                                             stats   |-> tool_input["stats"]],
                            message     |-> [displayed_statistics |-> tool_input["title"]]])

ClearMap ==
    Returned([map_command |-> [command |-> "clear_highlights"],
              message     |-> [cleared_all_highlights |-> TRUE]])

\* mutant of UnknownTool: an unknown name is an exception
UnknownToolRaises(tool_name) == Raised(<<"Unknown tool: ", tool_name>>)

UnknownTool(tool_name) == Returned([error |-> <<"Unknown tool: ", tool_name>>])

ExecuteTool(c, tool_name, tool_input) ==
    CASE tool_name = "show_features"             -> ShowFeatures(c, tool_input)
      [] tool_name = "query_images"              -> QueryImages(c)
      [] tool_name = "find_images_with_features" -> FindImagesWithFeatures(c, tool_input)
      [] tool_name = "find_richest_image"        -> FindRichestImage(c, tool_input)
      [] tool_name = "highlight_on_map"          -> HighlightOnMap(tool_input)
      [] tool_name = "show_statistics"           -> ShowStatistics(tool_input)
      [] tool_name = "clear_map"                 -> ClearMap
      [] OTHER                                   -> UnknownTool(tool_name)

(***************************************************************************)
(* MappingAgent.ask, step by step.  A worker is one request being served   *)
(* by the process-wide agent; pc[t] is its position:                       *)
(*   idle -> round1 -> (tools -> round2 ->) store_user -> store_assistant  *)
(*        -> done,   or -> failed when a reasoner call raises.             *)
(***************************************************************************)
HistoryWindow == 10

MAPPING_TOOLS == << "show_features", "query_images", "find_images_with_features",
                    "find_richest_image", "highlight_on_map", "show_statistics",
                    "clear_map" >>

SystemMessage(c) ==
    [role |-> "system",
     content |-> [system_prompt |-> TRUE, total_features |-> total_features(c),
                  total_images |-> total_images(c)]]

UserMessage(q) == [role |-> "user", content |-> q]

AssistantMessage(text) == [role |-> "assistant", content |-> text]

\* mutant of BuildMessages: the whole transcript is replayed
BuildMessagesAll(c, history, q) ==
    <<SystemMessage(c)>> \o history \o <<UserMessage(q)>>

\* lines 385-391: system prompt + conversation_history[-10:] + the question
BuildMessages(c, history, q) ==
    <<SystemMessage(c)>> \o LastN(history, HistoryWindow) \o <<UserMessage(q)>>

\* lines 394-400 and 452-456: the two chat.completions.create calls
Round1Request(msgs) == [messages |-> msgs, tools |-> MAPPING_TOOLS]

\* mutant of Round2Request: round 2 is offered the tool catalog again
Round2RequestWithTools(msgs) == [messages |-> msgs, tools |-> MAPPING_TOOLS]

Round2Request(msgs) == [messages |-> msgs, tools |-> <<>>]

\* lines 423-427: "map_command" in result / "map_commands" in result
ExtractCommands(result) ==
    (IF "map_command" \in DOMAIN result THEN <<result.map_command>> ELSE <<>>)
    \o (IF "map_commands" \in DOMAIN result THEN result.map_commands ELSE <<>>)

\* lines 410-414: the part of the try block that may raise
RunToolCall(c, tool_call) ==
    LET parsed == JsonLoads(tool_call.arguments)
    IN  IF parsed.raised THEN parsed
        ELSE LET out == ExecuteTool(c, tool_call.name, parsed.value)
             IN  IF out.raised THEN out
                 ELSE Returned([tool_input |-> parsed.value, result |-> out.value])

\* lines 430-440: the assistant/tool message pair of a tool call that returned
SuccessMessages(tool_call, result) ==
    << [role |-> "assistant", content |-> None, tool_calls |-> <<tool_call>>],
       [role |-> "tool", tool_call_id |-> tool_call.id, name |-> tool_call.name,
        content |-> JsonDumps(result)] >>

\* lines 441-449: the except branch
ErrorMessages(tool_call, e) ==
    << [role |-> "tool", tool_call_id |-> tool_call.id, name |-> tool_call.name,
        content |-> JsonDumps([error |-> e])] >>

\* mutant of AfterToolCall: the try wraps the loop, so a raising call ends it
AfterToolCallAbort(i, n, raised) ==
    IF raised THEN [idx |-> n, pc |-> "round2"]
    ELSE [idx |-> i + 1, pc |-> IF i + 1 < n THEN "tools" ELSE "round2"]

\* line 408: the for loop goes on to the next tool call whatever the last one did,
\* and line 452 follows the loop
AfterToolCall(i, n, raised) ==
    [idx |-> i + 1, pc |-> IF i + 1 < n THEN "tools" ELSE "round2"]

\* mutant of AssistantEntries: the reply is stored as it came
AssistantEntriesRaw(content) ==
    IF Truthy(content) THEN <<AssistantMessage(content)>> ELSE <<>>

\* lines 462-466: what the turn stores for the assistant
AssistantEntries(content) ==
    IF Truthy(content) /\ CleanResponse(content.text) # <<>>
    THEN <<AssistantMessage(Text(CleanResponse(content.text)))>>
    ELSE <<>>

Fallback == Text(<<"I've updated the map.">>)

\* lines 468-473: the returned dict
AskResult(msg, uses, cmds, u) ==
    [answer       |-> IF Truthy(msg.content) THEN msg.content ELSE Fallback,
     tool_uses    |-> uses,
     map_commands |-> cmds,
     tokens       |-> IF u # None THEN u.total_tokens ELSE 0]

\* mutant of clear_history: the list is left as it is
clear_history_noop(history) == history

\* line 477
clear_history(history) == <<>>

(***************************************************************************)
(* service.py: the loader and the lazily initialised Campaign store.       *)
(* The data files are the ones proto/convert_gpkg_to_json.py and           *)
(* proto/generate_mock_features.py write: image positions numbered from 0  *)
(* in file order, without a 'visible_in_images' key; every feature lists   *)
(* the ids of the nearby image positions among every tenth one.            *)
(***************************************************************************)
SubsampleStep == 100

GeneratorStep == 10

\* list[::step]
EveryNth(s, step) ==
    LET kept == {i \in 1..Len(s) : (i - 1) % step = 0}
    IN  [k \in 1..Cardinality(kept) |-> s[(k - 1) * step + 1]]

\* str.lower() on the condition words a data file may carry
Lower(w) ==
    CASE w = "Good"    -> "good"
      [] w = "Fair"    -> "fair"
      [] w = "Poor"    -> "poor"
      [] w = "Damaged" -> "damaged"
      [] OTHER         -> w

\* _map_condition(feature); a confidence is kept in hundredths
map_condition(feature) ==
    LET attributes == Get(feature, "attributes", EmptyDict)
        confidence == Get(feature, "confidence", 90)
        byConfidence == IF confidence > 95 THEN "good"
                        ELSE IF confidence > 85 THEN "fair" ELSE "poor"
        bySeverity == IF "severity" \in DOMAIN attributes
                      THEN CASE attributes.severity = "minor"    -> "fair"
                             [] attributes.severity = "moderate" -> "poor"
                             [] attributes.severity = "severe"   -> "damaged"
                             [] OTHER                            -> "fair"
                      ELSE byConfidence
    IN  IF "condition" \in DOMAIN attributes
           /\ Lower(attributes.condition) \in {"good", "fair", "poor", "damaged"}
        THEN Lower(attributes.condition)
        ELSE bySeverity

\* load_real_campaign() on the data files `raw`
load_real_campaign(raw) ==
    LET kept  == EveryNth(raw.image_positions, SubsampleStep)
        feats == raw.horizontal \o raw.vertical
    IN  [name     |-> raw.name,
         features |-> [k \in 1..Len(feats) |->
                          Feature(feats[k].id, feats[k].feature_type,
                                  map_condition(feats[k]),
                                  Get(feats[k], "visible_in_images", <<>>))],
         images   |-> [k \in 1..Len(kept) |->
                          ImagePosition(kept[k].id,
                                        Get(kept[k], "visible_in_images", <<>>),
                                        <<kept[k].longitude, kept[k].latitude>>)]]

\* who calls get_campaign(): 0 is the import of main.py, which constructs the
\* agent (line 39) before any request is served; the others are request workers
Importer == 0

Callers == {Importer} \cup Workers

\* a Campaign object: the k-th one load_real_campaign() has built
Instance(k, c) == [instance |-> k, value |-> c]

\* mutant of GetCampaignCheck: the cache is not consulted
GetCampaignCheckAlways(c) ==
    /\ store_pc[c] = "idle"
    /\ store_pc' = [store_pc EXCEPT ![c] = "load"]
    /\ lookups' = lookups + 1
    /\ UNCHANGED <<cached_campaign, loads, got>>
    /\ UNCHANGED <<campaign, conversation_history, pc, question, messages, message,
                   usage, tool_calls, idx, tool_uses, map_commands, requests, response,
                   before, clearedLen, turns, exchange>>

\* service.py line 110: `if MappingService._cached_campaign is None`
GetCampaignCheck(c) ==
    /\ store_pc[c] = "idle"
    /\ store_pc' = [store_pc EXCEPT ![c] =
                       IF cached_campaign = None THEN "load" ELSE "return"]
    /\ lookups' = lookups + 1
    /\ UNCHANGED <<cached_campaign, loads, got>>
    /\ UNCHANGED <<campaign, conversation_history, pc, question, messages, message,
                   usage, tool_calls, idx, tool_uses, map_commands, requests, response,
                   before, clearedLen, turns, exchange>>

\* service.py line 111: load_real_campaign() runs and its Campaign is cached
GetCampaignLoad(c, raw) ==
    /\ store_pc[c] = "load"
    /\ loads' = loads + 1
    /\ cached_campaign' = Instance(loads + 1, load_real_campaign(raw))
    /\ store_pc' = [store_pc EXCEPT ![c] = "return"]
    /\ UNCHANGED <<got, lookups>>
    /\ UNCHANGED <<campaign, conversation_history, pc, question, messages, message,
                   usage, tool_calls, idx, tool_uses, map_commands, requests, response,
                   before, clearedLen, turns, exchange>>

\* service.py line 112; agent_service.py line 180 keeps what the importer got
GetCampaignReturn(c) ==
    /\ store_pc[c] = "return"
    /\ got' = [got EXCEPT ![c] = cached_campaign]
    /\ store_pc' = [store_pc EXCEPT ![c] = "idle"]
    /\ campaign' = IF c = Importer THEN cached_campaign.value ELSE campaign
    /\ UNCHANGED <<cached_campaign, loads, lookups>>
    /\ UNCHANGED <<conversation_history, pc, question, messages, message,
                   usage, tool_calls, idx, tool_uses, map_commands, requests, response,
                   before, clearedLen, turns, exchange>>

InFlight(t) == pc[t] \in {"round1", "tools", "round2", "store_user", "store_assistant"}

TypeOK ==
    /\ pc \in [Workers -> {"idle", "round1", "tools", "round2", "store_user",
                           "store_assistant", "done", "failed"}]
    /\ idx \in [Workers -> 0..(MaxToolCalls + 1)]
    /\ turns \in Nat

Init ==
    /\ campaign = LoadedCampaign
    /\ conversation_history = <<>>
    /\ pc = [t \in Workers |-> "idle"]
    /\ question = [t \in Workers |-> None]
    /\ messages = [t \in Workers |-> <<>>]
    /\ message = [t \in Workers |-> None]
    /\ usage = [t \in Workers |-> None]
    /\ tool_calls = [t \in Workers |-> <<>>]
    /\ idx = [t \in Workers |-> 0]
    /\ tool_uses = [t \in Workers |-> <<>>]
    /\ map_commands = [t \in Workers |-> <<>>]
    /\ requests = [t \in Workers |-> <<>>]
    /\ response = [t \in Workers |-> None]
    /\ before = [t \in Workers |-> <<>>]
    /\ clearedLen = -1
    /\ turns = 0
    /\ cached_campaign = Instance(1, LoadedCampaign)
    /\ loads = 1
    /\ store_pc = [c \in Callers |-> "idle"]
    /\ got = [c \in Callers |-> IF c = Importer THEN Instance(1, LoadedCampaign) ELSE None]
    /\ lookups = 1
    /\ exchange = None

\* mutant of AskBegin: the question is stored before the reasoner is called
AskBeginEager(t, q) ==
    /\ ~InFlight(t)
    /\ pc' = [pc EXCEPT ![t] = "round1"]
    /\ question' = [question EXCEPT ![t] = q]
    /\ messages' = [messages EXCEPT ![t] = BuildMessages(campaign, conversation_history, q)]
    /\ message' = [message EXCEPT ![t] = None]
    /\ usage' = [usage EXCEPT ![t] = None]
    /\ tool_calls' = [tool_calls EXCEPT ![t] = <<>>]
    /\ idx' = [idx EXCEPT ![t] = 0]
    /\ tool_uses' = [tool_uses EXCEPT ![t] = <<>>]
    /\ map_commands' = [map_commands EXCEPT ![t] = <<>>]
    /\ requests' = [requests EXCEPT ![t] = <<>>]
    /\ response' = [response EXCEPT ![t] = None]
    /\ before' = [before EXCEPT ![t] = conversation_history]
    /\ turns' = turns + 1
    /\ conversation_history' = Append(conversation_history, UserMessage(q))
    /\ UNCHANGED <<campaign, clearedLen>>
    /\ UNCHANGED storeVars
    /\ UNCHANGED exchange

\* main.py 60-67 and ask 369-391: a request enters ask() and builds `messages`
AskBegin(t, q) ==
    /\ ~InFlight(t)
    /\ pc' = [pc EXCEPT ![t] = "round1"]
    /\ question' = [question EXCEPT ![t] = q]
    /\ messages' = [messages EXCEPT ![t] = BuildMessages(campaign, conversation_history, q)]
    /\ message' = [message EXCEPT ![t] = None]
    /\ usage' = [usage EXCEPT ![t] = None]
    /\ tool_calls' = [tool_calls EXCEPT ![t] = <<>>]
    /\ idx' = [idx EXCEPT ![t] = 0]
    /\ tool_uses' = [tool_uses EXCEPT ![t] = <<>>]
    /\ map_commands' = [map_commands EXCEPT ![t] = <<>>]
    /\ requests' = [requests EXCEPT ![t] = <<>>]
    /\ response' = [response EXCEPT ![t] = None]
    /\ before' = [before EXCEPT ![t] = conversation_history]
    /\ turns' = turns + 1
    /\ UNCHANGED <<campaign, conversation_history, clearedLen>>
    /\ UNCHANGED storeVars
    /\ UNCHANGED exchange

\* lines 394-400 raise; main.py 69-73 answers 500
Round1Fail(t) ==
    /\ pc[t] = "round1"
    /\ requests' = [requests EXCEPT ![t] = Append(@, Round1Request(messages[t]))]
    /\ response' = [response EXCEPT ![t] = [status |-> 500, detail |-> <<"reasoner call failed">>]]
    /\ pc' = [pc EXCEPT ![t] = "failed"]
    /\ UNCHANGED <<campaign, conversation_history, question, messages, message, usage,
                   tool_calls, idx, tool_uses, map_commands, before, clearedLen, turns>>
    /\ UNCHANGED storeVars
    /\ UNCHANGED exchange

\* lines 394-407: round 1 answers with `content`, `calls` and `u`
Round1Reply(t, content, calls, u) ==
    /\ pc[t] = "round1"
    /\ requests' = [requests EXCEPT ![t] = Append(@, Round1Request(messages[t]))]
    /\ message' = [message EXCEPT ![t] = [content |-> content, tool_calls |-> calls]]
    /\ usage' = [usage EXCEPT ![t] = u]
    /\ tool_calls' = [tool_calls EXCEPT ![t] = calls]
    /\ idx' = [idx EXCEPT ![t] = 0]
    /\ tool_uses' = [tool_uses EXCEPT ![t] = <<>>]
    /\ map_commands' = [map_commands EXCEPT ![t] = <<>>]
    /\ pc' = [pc EXCEPT ![t] = IF calls # <<>> THEN "tools" ELSE "store_user"]
    /\ UNCHANGED <<campaign, conversation_history, question, messages, response,
                   before, clearedLen, turns, exchange>>
    /\ UNCHANGED storeVars
    /\ UNCHANGED exchange

\* lines 408-449: one iteration of the loop over message.tool_calls
ExecTool(t) ==
    /\ pc[t] = "tools"
    /\ idx[t] < Len(tool_calls[t])
    /\ LET tool_call == tool_calls[t][idx[t] + 1]
           out       == RunToolCall(campaign, tool_call)
           after     == AfterToolCall(idx[t], Len(tool_calls[t]), out.raised)
       IN  /\ IF out.raised
              THEN /\ messages' = [messages EXCEPT ![t] = @ \o ErrorMessages(tool_call, out.error)]
                   /\ UNCHANGED <<tool_uses, map_commands>>
              ELSE /\ tool_uses' = [tool_uses EXCEPT ![t] =
                                       Append(@, [tool   |-> tool_call.name,
                                                  input  |-> out.value.tool_input,
                                                  result |-> out.value.result])]
                   /\ map_commands' = [map_commands EXCEPT ![t] =
                                          @ \o ExtractCommands(out.value.result)]
                   /\ messages' = [messages EXCEPT ![t] =
                                      @ \o SuccessMessages(tool_call, out.value.result)]
           /\ idx' = [idx EXCEPT ![t] = after.idx]
           /\ pc' = [pc EXCEPT ![t] = after.pc]
    /\ UNCHANGED <<campaign, conversation_history, question, message, usage, tool_calls,
                   requests, response, before, clearedLen, turns>>
    /\ UNCHANGED storeVars
    /\ UNCHANGED exchange

\* lines 452-456 raise; main.py 69-73 answers 500
Round2Fail(t) ==
    /\ pc[t] = "round2"
    /\ requests' = [requests EXCEPT ![t] = Append(@, Round2Request(messages[t]))]
    /\ response' = [response EXCEPT ![t] = [status |-> 500, detail |-> <<"reasoner call failed">>]]
    /\ pc' = [pc EXCEPT ![t] = "failed"]
    /\ UNCHANGED <<campaign, conversation_history, question, messages, message, usage,
                   tool_calls, idx, tool_uses, map_commands, before, clearedLen, turns>>
    /\ UNCHANGED storeVars
    /\ UNCHANGED exchange

\* lines 452-457: round 2 answers
Round2Reply(t, content, u) ==
    /\ pc[t] = "round2"
    /\ requests' = [requests EXCEPT ![t] = Append(@, Round2Request(messages[t]))]
    /\ message' = [message EXCEPT ![t] = [content |-> content, tool_calls |-> <<>>]]
    /\ usage' = [usage EXCEPT ![t] = u]
    /\ pc' = [pc EXCEPT ![t] = "store_user"]
    /\ UNCHANGED <<campaign, conversation_history, question, messages, tool_calls, idx,
                   tool_uses, map_commands, response, before, clearedLen, turns>>
    /\ UNCHANGED storeVars
    /\ UNCHANGED exchange

\* line 461
AppendUser(t) ==
    /\ pc[t] = "store_user"
    /\ conversation_history' = Append(conversation_history, UserMessage(question[t]))
    /\ clearedLen' = -1
    /\ pc' = [pc EXCEPT ![t] = "store_assistant"]
    /\ UNCHANGED <<campaign, question, messages, message, usage, tool_calls, idx,
                   tool_uses, map_commands, requests, response, before, turns>>
    /\ UNCHANGED storeVars
    /\ UNCHANGED exchange

\* lines 462-473, and main.py 67-68 answers 200 with the returned dict
AppendAssistant(t) ==
    /\ pc[t] = "store_assistant"
    /\ conversation_history' = conversation_history \o AssistantEntries(message[t].content)
    /\ response' = [response EXCEPT ![t] =
                       [status |-> 200,
                        body   |-> AskResult(message[t], tool_uses[t], map_commands[t],
                                             usage[t])]]
    /\ pc' = [pc EXCEPT ![t] = "done"]
    /\ UNCHANGED <<campaign, question, messages, message, usage, tool_calls, idx,
                   tool_uses, map_commands, requests, before, clearedLen, turns>>
    /\ UNCHANGED storeVars
    /\ UNCHANGED exchange

\* mutant of Clear: the Campaign is emptied along with the transcript
ClearEverything ==
    /\ conversation_history' = clear_history(conversation_history)
    /\ clearedLen' = Len(conversation_history)
    /\ campaign' = [campaign EXCEPT !.features = <<>>, !.images = <<>>]
    /\ UNCHANGED <<pc, question, messages, message, usage, tool_calls, idx,
                   tool_uses, map_commands, requests, response, before, turns>>
    /\ UNCHANGED storeVars
    /\ UNCHANGED exchange

\* main.py 76-80 and clear_history 475-477
Clear ==
    /\ conversation_history' = clear_history(conversation_history)
    /\ clearedLen' = Len(conversation_history)
    /\ UNCHANGED <<campaign, pc, question, messages, message, usage, tool_calls, idx,
                   tool_uses, map_commands, requests, response, before, turns>>
    /\ UNCHANGED storeVars
    /\ UNCHANGED exchange

(***************************************************************************)
(* What the outside may send: questions, and the replies of the reasoner   *)
(* (any text, any list of tool calls, with or without a usage counter).    *)
(***************************************************************************)
Questions == {Text(<<"q1">>), Text(<<"q2">>)}

Contents == {None} \cup {Text(s) : s \in Texts}

ToolReplyContents == {None, Text(<<"a">>), Text(<<"a", Marker>>)}

Counted == [total_tokens |-> 42]

Usages == {None, Counted}

Object(d) == [kind |-> "object", obj |-> d]

Call(n, a) == [name |-> n, arguments |-> a]

\* The tool calls a reply is built from: every tool with arguments that succeed,
\* and each way a call can fail.
Catalog ==
    << Call("show_features", Object(EmptyDict)),
       Call("query_images", Object(EmptyDict)),
       Call("find_images_with_features", Object([feature_type |-> "fire_hydrant"])),
       Call("find_images_with_features", Object([feature_type |-> "vegetation"])),
       Call("find_richest_image", Object(EmptyDict)),
       Call("find_richest_image", Object([feature_type |-> "vegetation"])),
       Call("highlight_on_map", Object([feature_ids |-> <<2, 1>>])),
       Call("highlight_on_map", Object(EmptyDict)),
       Call("show_statistics", Object([title |-> "Totals", stats |-> [Total |-> 3]])),
       Call("show_statistics", Object([title |-> "Totals"])),
       Call("clear_map", Object(EmptyDict)),
       Call("zoom_to_features", Object([feature_ids |-> <<1>>])),
       Call("show_features", [kind |-> "malformed"]),
       Call("show_features", [kind |-> "array"]),
       Call("highlight_on_map", Object([feature_ids |-> <<>>])),
       Call("show_statistics", Object([stats |-> [Total |-> 3]])) >>

\* message.tool_calls for a choice of catalog entries; a call's id is its position
MakeCalls(picks) ==
    [i \in 1..Len(picks) |-> [id        |-> i,
                              name      |-> Catalog[picks[i]].name,
                              arguments |-> Catalog[picks[i]].arguments]]

PickLists == SeqsUpTo(1..Len(Catalog), MaxToolCalls) \ {<<>>}

(***************************************************************************)
(* Spec: one session used as its contract requires, one turn at a time     *)
(* (ask() is synchronous; a caller starts the next ask() or clear() after  *)
(* the previous one has returned or raised).                               *)
(***************************************************************************)
SessionAsk == \E q \in Questions : turns < MaxTurns /\ AskBegin(1, q)

SessionRound1Text == \E c \in Contents : Round1Reply(1, c, <<>>, Counted)

\* The tool requests of a session's turns: one call that succeeds, a call with
\* bad JSON before one that succeeds, a search that finds nothing before a clear,
\* an unknown tool before a clear.
SessionPickLists == {<<1>>, <<13, 9>>, <<6, 11>>, <<12, 11>>}

SessionRound1Tools ==
    \E picks \in SessionPickLists : Round1Reply(1, None, MakeCalls(picks), Counted)

SessionRound2 == \E c \in ToolReplyContents : Round2Reply(1, c, Counted)

SessionClear == ~InFlight(1) /\ Clear

Next ==
    \/ SessionAsk
    \/ Round1Fail(1)
    \/ SessionRound1Text
    \/ SessionRound1Tools
    \/ ExecTool(1)
    \/ Round2Fail(1)
    \/ SessionRound2
    \/ AppendUser(1)
    \/ AppendAssistant(1)
    \/ SessionClear

Spec == Init /\ [][Next]_vars

(***************************************************************************)
(* SpecTools: the first turn of a session, its round 1 requesting every    *)
(* list of at most MaxToolCalls calls of the catalog.                      *)
(***************************************************************************)
ToolsAsk == turns = 0 /\ AskBegin(1, Text(<<"q1">>))

ToolsRound1Tools ==
    \E picks \in PickLists : Round1Reply(1, None, MakeCalls(picks), Counted)

NextTools ==
    \/ ToolsAsk
    \/ Round1Fail(1)
    \/ ToolsRound1Tools
    \/ ExecTool(1)
    \/ Round2Fail(1)
    \/ SessionRound2
    \/ AppendUser(1)
    \/ AppendAssistant(1)
    \/ SessionClear

SpecTools == Init /\ [][NextTools]_vars

(***************************************************************************)
(* SpecQuery: the tools that read the Campaign, applied to every small     *)
(* Campaign and every argument map the catalog allows.  A turn is followed *)
(* up to the end of its tool loop.                                         *)
(***************************************************************************)
\* the (type, condition) of a feature
FeatureKinds == { <<"fire_hydrant", "damaged">>, <<"fire_hydrant", "good">>,
                  <<"traffic_sign", "good">> }

\* a Campaign of n features (ids 1..n) and m images (ids 11..10+m), image j
\* seeing the features sees[j]
MakeCampaign(kinds, sees) ==
    [name     |-> "track_2020",
     features |-> [i \in 1..Len(kinds) |->
                      Feature(i, kinds[i][1], kinds[i][2],
                              SortedSeq({10 + j : j \in {k \in 1..Len(sees) : i \in sees[k]}}))],
     images   |-> [j \in 1..Len(sees) |->
                      ImagePosition(10 + j, SortedSeq(sees[j]), <<0, 45 * j>>)]]

\* the Campaigns of n features and m images
CampaignsOf(n, m) ==
    { MakeCampaign(kinds, sees) :
        kinds \in [1..n -> FeatureKinds], sees \in [1..m -> SUBSET (1..n)] }

\* every Campaign of at most MaxItems features and images together
Campaigns ==
    UNION { UNION { CampaignsOf(n, m) : m \in 0..(MaxItems - n) } : n \in 0..MaxItems }

TypeArgs == {"all", "any", "fire_hydrant", "vegetation"}

ConditionArgs == {"any", "damaged"}

\* the argument maps of the three filtering tools: each key present or not
FilterArgs ==
    {EmptyDict}
    \cup {[feature_type |-> ft] : ft \in TypeArgs}
    \cup {[condition |-> cond] : cond \in ConditionArgs}
    \cup {[feature_type |-> ft, condition |-> cond] : ft \in TypeArgs, cond \in ConditionArgs}

FilterTools == {"show_features", "find_images_with_features", "find_richest_image"}

QueryCalls ==
    {Call(n, Object(a)) : n \in FilterTools, a \in FilterArgs}
    \cup {Call(n, Object(EmptyDict)) : n \in {"query_images", "clear_map"}}

InitQuery ==
    /\ campaign \in Campaigns
    /\ conversation_history = <<>>
    /\ pc = [t \in Workers |-> "idle"]
    /\ question = [t \in Workers |-> None]
    /\ messages = [t \in Workers |-> <<>>]
    /\ message = [t \in Workers |-> None]
    /\ usage = [t \in Workers |-> None]
    /\ tool_calls = [t \in Workers |-> <<>>]
    /\ idx = [t \in Workers |-> 0]
    /\ tool_uses = [t \in Workers |-> <<>>]
    /\ map_commands = [t \in Workers |-> <<>>]
    /\ requests = [t \in Workers |-> <<>>]
    /\ response = [t \in Workers |-> None]
    /\ before = [t \in Workers |-> <<>>]
    /\ clearedLen = -1
    /\ turns = 0
    /\ cached_campaign = Instance(1, campaign)
    /\ loads = 1
    /\ store_pc = [c \in Callers |-> "idle"]
    /\ got = [c \in Callers |-> IF c = Importer THEN Instance(1, campaign) ELSE None]
    /\ lookups = 1
    /\ exchange = None

QueryAsk == turns = 0 /\ AskBegin(1, Text(<<"q1">>))

QueryRound1Tools ==
    \E call \in QueryCalls :
        Round1Reply(1, None, <<[id |-> 1, name |-> call.name, arguments |-> call.arguments]>>,
                    Counted)

NextQuery ==
    \/ QueryAsk
    \/ QueryRound1Tools
    \/ ExecTool(1)

SpecQuery == InitQuery /\ [][NextQuery]_vars

(***************************************************************************)
(* SpecLoad: the process starts and main.py constructs the agent, whose    *)
(* get_campaign() finds no cached Campaign and loads the data files.       *)
(***************************************************************************)
\* image_metadata.json: n image positions, numbered from 0 in file order
RawImagePositions(n) == [k \in 1..n |-> [id |-> k - 1, longitude |-> 0, latitude |-> k - 1]]

\* what find_nearby_images may give a feature: no image, or one of the image
\* positions the generator sampled
RawViews(n) ==
    LET sampled == EveryNth(RawImagePositions(n), GeneratorStep)
    IN  {<<>>} \cup {<<sampled[k].id>> : k \in 1..Len(sampled)}

\* features/horizontal/*.json: h road markings, feature k near the images views[k]
RawHorizontal(views) ==
    [k \in 1..Len(views) |->
        [id |-> k, feature_type |-> "road_marking", confidence |-> 92,
         attributes |-> [condition |-> "Good"], visible_in_images |-> views[k]]]

\* features/vertical/*.json: no feature, or one sign or one hydrant no image is near
RawVerticals ==
    { <<>>,
      << [id |-> 100, feature_type |-> "traffic_sign", confidence |-> 80,
          attributes |-> [severity |-> "severe"], visible_in_images |-> <<>>] >>,
      << [id |-> 100, feature_type |-> "fire_hydrant", confidence |-> 97,
          attributes |-> EmptyDict, visible_in_images |-> <<>>] >> }

RawCampaignsOf(n, h) ==
    LET image_positions == RawImagePositions(n)
        views_of_n      == RawViews(n)
    IN  { [name            |-> "track_2020",
           image_positions |-> image_positions,
           horizontal      |-> RawHorizontal(views),
           vertical        |-> vertical] :
            views \in [1..h -> views_of_n], vertical \in RawVerticals }

\* the data files of the store scenario: a handful of image positions
SmallRawCampaigns == UNION { RawCampaignsOf(n, h) : n \in 1..2, h \in 0..1 }

InitStore ==
    /\ campaign = None
    /\ conversation_history = <<>>
    /\ pc = [t \in Workers |-> "idle"]
    /\ question = [t \in Workers |-> None]
    /\ messages = [t \in Workers |-> <<>>]
    /\ message = [t \in Workers |-> None]
    /\ usage = [t \in Workers |-> None]
    /\ tool_calls = [t \in Workers |-> <<>>]
    /\ idx = [t \in Workers |-> 0]
    /\ tool_uses = [t \in Workers |-> <<>>]
    /\ map_commands = [t \in Workers |-> <<>>]
    /\ requests = [t \in Workers |-> <<>>]
    /\ response = [t \in Workers |-> None]
    /\ before = [t \in Workers |-> <<>>]
    /\ clearedLen = -1
    /\ turns = 0
    /\ cached_campaign = None
    /\ loads = 0
    /\ store_pc = [c \in Callers |-> "idle"]
    /\ got = [c \in Callers |-> None]
    /\ lookups = 0
    /\ exchange = None

\* agent_service.py line 180, run once by the import of main.py
ImportCheck == lookups = 0 /\ GetCampaignCheck(Importer)

\* data files of up to MaxRawImages image positions and MaxRawFeatures features
LoadFiles ==
    \E n \in 1..MaxRawImages, h \in 0..MaxRawFeatures :
        \E raw \in RawCampaignsOf(n, h) : GetCampaignLoad(Importer, raw)

ImportReturn == GetCampaignReturn(Importer)

NextLoad ==
    \/ ImportCheck
    \/ LoadFiles
    \/ ImportReturn

SpecLoad == InitStore /\ [][NextLoad]_vars

(***************************************************************************)
(* SpecStore: the same start, followed by GET /campaign requests served    *)
(* concurrently by the worker threads.  Requests are served only once the  *)
(* import of main.py, and with it the agent's construction, has finished.  *)
(***************************************************************************)
StoreLoad == \E c \in Callers, raw \in SmallRawCampaigns : GetCampaignLoad(c, raw)

\* main.py line 56
RequestCheck ==
    \E c \in Workers : campaign # None /\ lookups < MaxLookups /\ GetCampaignCheck(c)

\* main.py lines 56-57
RequestReturn == \E c \in Workers : GetCampaignReturn(c)

NextStore ==
    \/ ImportCheck
    \/ StoreLoad
    \/ ImportReturn
    \/ RequestCheck
    \/ RequestReturn

SpecStore == InitStore /\ [][NextStore]_vars

(***************************************************************************)
(* SpecLong: the same session over many turns, with short replies, so that *)
(* the retained transcript outgrows the window of HistoryWindow entries.   *)
(***************************************************************************)
LongContents == {None, Text(<<"a">>)}

LongPickLists == {<<11>>, <<10>>}

\* the questions of a long session alternate, so that the entries of
\* successive turns can be told apart
LongQuestion == IF turns % 2 = 0 THEN Text(<<"q1">>) ELSE Text(<<"q2">>)

LongAsk == turns < MaxLongTurns /\ AskBegin(1, LongQuestion)

LongRound1Text == \E c \in LongContents, u \in Usages : Round1Reply(1, c, <<>>, u)

LongRound1Tools == \E picks \in LongPickLists : Round1Reply(1, None, MakeCalls(picks), None)

LongRound2 == \E c \in LongContents : Round2Reply(1, c, Counted)

NextLong ==
    \/ LongAsk
    \/ Round1Fail(1)
    \/ LongRound1Text
    \/ LongRound1Tools
    \/ ExecTool(1)
    \/ Round2Fail(1)
    \/ LongRound2
    \/ AppendUser(1)
    \/ AppendAssistant(1)
    \/ SessionClear

SpecLong == Init /\ [][NextLong]_vars

(***************************************************************************)
(* SpecShared: the process-wide agent of main.py.  /ask and /clear are     *)
(* plain `def` endpoints, which FastAPI runs on a pool of worker threads:  *)
(* several requests are inside agent.ask() at once, a step of one between  *)
(* any two steps of another, and /clear may run at any moment.             *)
(***************************************************************************)
\* Each worker asks a question of its own, so that the turns can be told apart.
SharedQuestion(t) == IF t = 1 THEN Text(<<"q1">>) ELSE Text(<<"q2">>)

SharedAsk == \E t \in Workers : turns < MaxSharedTurns /\ AskBegin(t, SharedQuestion(t))

SharedRound1Fail == \E t \in Workers : Round1Fail(t)

SharedRound1Text == \E t \in Workers, c \in LongContents : Round1Reply(t, c, <<>>, Counted)

SharedRound1Tools ==
    \E t \in Workers, picks \in LongPickLists : Round1Reply(t, None, MakeCalls(picks), Counted)

SharedExecTool == \E t \in Workers : ExecTool(t)

SharedRound2Fail == \E t \in Workers : Round2Fail(t)

SharedRound2 == \E t \in Workers, c \in LongContents : Round2Reply(t, c, Counted)

SharedAppendUser == \E t \in Workers : AppendUser(t)

SharedAppendAssistant == \E t \in Workers : AppendAssistant(t)

NextShared ==
    \/ SharedAsk
    \/ SharedRound1Fail
    \/ SharedRound1Text
    \/ SharedRound1Tools
    \/ SharedExecTool
    \/ SharedRound2Fail
    \/ SharedRound2
    \/ SharedAppendUser
    \/ SharedAppendAssistant
    \/ Clear

SpecShared == Init /\ [][NextShared]_vars

(***************************************************************************)
(* The viewer endpoints of main.py: /nearby/images and /project/features.  *)
(* Both read agent.campaign and change nothing.  The float arithmetic is   *)
(* carried in fixed point: a coordinate is a whole number of 1e-5 degree   *)
(* close to the equator, an elevation a whole number of metres, a distance *)
(* a number of millimetres (of centimetres once rounded to two decimals),  *)
(* an angle a number of hundredths of a degree.                            *)
(***************************************************************************)
\* 6371000 * radians(1e-5 degree) = 1.11195 m, the arc of one coordinate unit,
\* in tenths of a millimetre
ArcLength == 11119

\* Query(50.0): the default max_distance, in millimetres
DefaultMaxDistance == 50000

\* line 376: the 100 m beyond which a feature is not projected, in millimetres
ProjectionCutoff == 100000

Abs(x) == IF x < 0 THEN -x ELSE x

RECURSIVE SqrtBetween(_, _, _)
\* the integer square root of n, known to lie in lo..hi
SqrtBetween(n, lo, hi) ==
    IF lo = hi THEN lo
    ELSE LET mid == (lo + hi + 1) \div 2
         IN  IF mid * mid <= n THEN SqrtBetween(n, mid, hi)
             ELSE SqrtBetween(n, lo, mid - 1)

\* math.sqrt
Sqrt(n) == SqrtBetween(n, 0, 46340)

\* lines 263-267 and 345-349: the haversine distance of two points, which at
\* this scale is the Euclidean one; 0 exactly when the points coincide
Distance(p, q) ==
    LET dlon == q[1] - p[1]
        dlat == q[2] - p[2]
    IN  (Sqrt((dlon * dlon + dlat * dlat) * 10000) * ArcLength) \div 1000

\* round(distance, 2): millimetres to the nearest centimetre
Round2(mm) == (mm + 5) \div 10

\* atan(n / d) for 0 <= n <= d, d > 0
AtanFirstOctant(n, d) ==
    LET z == (1000 * n) \div d
    IN  (45 * z) \div 10 + (1564 * ((z * (1000 - z)) \div 1000)) \div 1000

\* math.degrees(math.atan2(y, x)), in -18000..18000
Atan2(y, x) ==
    IF x = 0 /\ y = 0 THEN 0
    ELSE IF Abs(y) <= Abs(x)
         THEN LET a == AtanFirstOctant(Abs(y), Abs(x))
              IN  IF x > 0 THEN (IF y >= 0 THEN a ELSE -a)
                  ELSE (IF y >= 0 THEN 18000 - a ELSE a - 18000)
         ELSE LET a == AtanFirstOctant(Abs(x), Abs(y))
              IN  IF y > 0 THEN (IF x >= 0 THEN 9000 - a ELSE 9000 + a)
                  ELSE (IF x >= 0 THEN a - 9000 ELSE -9000 - a)

\* lines 254-261 and 334-343: the initial bearing from p to q, in 0..35999
Bearing(p, q) == (Atan2(q[1] - p[1], q[2] - p[2]) + 36000) % 36000

\* coords[2] if len(coords) > 2 else 0
Elevation(coords) == IF Len(coords) > 2 THEN coords[3] ELSE 0

\* a Feature with its geometry, which only /project/features reads
FeatureAt(i, t, c, coords) ==
    [id |-> i, type |-> t, condition |-> c, image_ids |-> <<>>, coordinates |-> coords]

\* lines 228-232 and 299-303: the first image of the Campaign with this id
FindImage(c, image_id) ==
    LET hits == {i \in 1..Len(c.images) : c.images[i].id = image_id}
    IN  IF hits = {} THEN None ELSE c.images[MinOf(hits)]

\* HTTPException(status_code=404, detail=f"Image {image_id} not found")
ImageNotFound(image_id) == [status_code |-> 404, detail |-> [image_not_found |-> image_id]]

\* mutant of Within: an image at distance 0 is kept
WithinOrAt(distance, max_distance) == distance <= max_distance

\* line 269
Within(distance, max_distance) == distance <= max_distance /\ distance > 0

RECURSIVE NearbyEntries(_, _, _, _)
\* lines 244-275: the loop over campaign.images
NearbyEntries(imgs, image_id, src_coords, max_distance) ==
    IF imgs = <<>> THEN <<>>
    ELSE LET img      == Head(imgs)
             distance == Distance(src_coords, img.coordinates)
         IN  (IF img.id # image_id /\ Within(distance, max_distance)
              THEN << [image_id |-> img.id,
                       bearing  |-> Bearing(src_coords, img.coordinates),
                       distance |-> Round2(distance)] >>
              ELSE <<>>)
             \o NearbyEntries(Tail(imgs), image_id, src_coords, max_distance)

RECURSIVE SortByDistance(_)
\* line 278: list.sort(key=distance) is stable, entries of equal distance keep
\* the order they were appended in
SortByDistance(s) ==
    IF s = <<>> THEN <<>>
    ELSE LET sorted == SortByDistance(SubSeq(s, 1, Len(s) - 1))
             x      == s[Len(s)]
             k      == Cardinality({i \in 1..Len(sorted) : sorted[i].distance <= x.distance})
         IN  SubSeq(sorted, 1, k) \o <<x>> \o SubSeq(sorted, k + 1, Len(sorted))

\* lines 225-280: the body of the try block
TryNearbyImages(c, image_id, max_distance) ==
    LET source_image == FindImage(c, image_id)
    IN  IF source_image = None THEN Raised(ImageNotFound(image_id))
        ELSE Returned([nearby_images |->
                          SortByDistance(NearbyEntries(c.images, image_id,
                                                       source_image.coordinates,
                                                       max_distance))])

\* lines 224-283: whatever the try block raises, the HTTPException of line 235
\* included, is caught by `except Exception` and answered with status 500
get_nearby_images(c, image_id, max_distance) ==
    LET out == TryNearbyImages(c, image_id, max_distance)
    IN  IF out.raised
        THEN [status |-> 500,
              detail |-> [text |-> "Error finding nearby images: ", str |-> out.error]]
        ELSE [status |-> 200, body |-> out.value]

RECURSIVE ParseIds(_)
\* line 312: [int(fid.strip()) for fid in feature_ids.split(",") if fid.strip()];
\* a piece of feature_ids.split(",") is digits [int |-> k], blanks only
\* [blank |-> TRUE], or anything else [word |-> w]
ParseIds(pieces) ==
    IF pieces = <<>> THEN Returned(<<>>)
    ELSE LET piece == Head(pieces)
             rest  == ParseIds(Tail(pieces))
         IN  IF "blank" \in DOMAIN piece THEN rest
             ELSE IF "word" \in DOMAIN piece THEN Raised([value_error |-> piece.word])
             ELSE IF rest.raised THEN rest
             ELSE Returned(<<piece.int>> \o rest.value)

\* mutant of ElevationOffset: no adjustment for any type
ElevationOffsetNone(type) == 0

\* lines 358-373: the adjustment of the elevation angle by feature type
ElevationOffset(type) ==
    IF type \in {"pavement_damage", "pavement_patch", "road_marking",
                 "crosswalk", "manhole_cover", "drainage_grate"} THEN -1500
    ELSE IF type \in {"traffic_sign", "stop_sign", "speed_limit"} THEN 500
    ELSE IF type \in {"traffic_light", "street_light"} THEN 1500
    ELSE IF type \in {"utility_pole", "fire_hydrant", "trash_bin"} THEN 0
    ELSE 0

\* mutant of TooFar: no feature is too far
TooFarNever(distance) == FALSE

\* line 376
TooFar(distance) == distance > ProjectionCutoff

RECURSIVE Hotspots(_, _, _)
\* lines 323-387: the loop over campaign.features; the camera has no elevation
\* of its own (service.py builds image coordinates from longitude and latitude)
Hotspots(fs, feature_id_list, cam_coords) ==
    IF fs = <<>> THEN <<>>
    ELSE LET feature  == Head(fs)
             distance == Distance(cam_coords, feature.coordinates)
             delev    == Elevation(feature.coordinates) - Elevation(cam_coords)
             base_elevation_angle == Atan2(delev * 1000, distance)
         IN  (IF feature.id \in Range(feature_id_list) /\ ~TooFar(distance)
              THEN << [feature_id   |-> feature.id,
                       feature_type |-> feature.type,
                       hlookat      |-> Bearing(cam_coords, feature.coordinates),
                       vlookat      |-> base_elevation_angle + ElevationOffset(feature.type),
                       distance     |-> Round2(distance),
                       condition    |-> feature.condition] >>
              ELSE <<>>)
             \o Hotspots(Tail(fs), feature_id_list, cam_coords)

\* lines 296-389: the body of the try block; feature_ids is the list of the
\* pieces between the commas, <<>> for the empty string
TryProjectFeatures(c, image_id, feature_ids) ==
    LET image == FindImage(c, image_id)
    IN  IF image = None THEN Raised(ImageNotFound(image_id))
        ELSE IF feature_ids = <<>> THEN Returned([hotspots |-> <<>>])
        ELSE LET parsed == ParseIds(feature_ids)
             IN  IF parsed.raised THEN parsed
                 ELSE Returned([hotspots |->
                                   Hotspots(c.features, parsed.value, image.coordinates)])

\* lines 295-392
project_features(c, image_id, feature_ids) ==
    LET out == TryProjectFeatures(c, image_id, feature_ids)
    IN  IF out.raised
        THEN [status |-> 500,
              detail |-> [text |-> "Error projecting features: ", str |-> out.error]]
        ELSE [status |-> 200, body |-> out.value]

\* GET /nearby/images?image_id=..&max_distance=..
NearbyImagesRequest(image_id, max_distance) ==
    /\ campaign # None
    /\ exchange' = [request  |-> [path |-> "/nearby/images", image_id |-> image_id,
                                  max_distance |-> max_distance],
                    response |-> get_nearby_images(campaign, image_id, max_distance)]
    /\ UNCHANGED <<campaign, conversation_history, pc, question, messages, message,
                   usage, tool_calls, idx, tool_uses, map_commands, requests, response,
                   before, clearedLen, turns>>
    /\ UNCHANGED storeVars

\* GET /project/features?image_id=..&feature_ids=..
ProjectFeaturesRequest(image_id, feature_ids) ==
    /\ campaign # None
    /\ exchange' = [request  |-> [path |-> "/project/features", image_id |-> image_id,
                                  feature_ids |-> feature_ids],
                    response |-> project_features(campaign, image_id, feature_ids)]
    /\ UNCHANGED <<campaign, conversation_history, pc, question, messages, message,
                   usage, tool_calls, idx, tool_uses, map_commands, requests, response,
                   before, clearedLen, turns>>
    /\ UNCHANGED storeVars

(***************************************************************************)
(* SpecView: the viewer endpoints on every small Campaign.  The loader     *)
(* keeps the images in the order of image_metadata.json, whatever it is.   *)
(***************************************************************************)
MaxViewItems == 3

\* where an image may stand: the origin, 44.5 m north or south of it
ImageSpots == { <<0, 0>>, <<0, 40>>, <<0, -40>> }

\* the twelve types of Feature.type
FeatureTypes ==
    {"pavement_damage", "road_marking", "manhole_cover", "drainage_grate",
     "pavement_patch", "traffic_sign", "street_light", "utility_pole", "trash_bin",
     "fire_hydrant", "traffic_light", "vegetation"}

\* the (type, coordinates) of the i-th feature: the first is of any type,
\* 11 m north of the origin and 3 m up; the others are a marking 105.6 m
\* north or a sign 11 m north on the ground
ViewFeatureKinds(i) ==
    IF i = 1 THEN {<<t, <<0, 10, 3>>>> : t \in FeatureTypes}
    ELSE { <<"road_marking", <<0, 95>>>>, <<"traffic_sign", <<0, 10>>>> }

\* the orders in which the ids 10..9+m may stand in the image list
IdOrders(m) == {o \in [1..m -> 10..(9 + m)] : \A i, j \in 1..m : i # j => o[i] # o[j]}

\* the Campaigns of n features (ids 1..n) and m images
ViewCampaignsOf(n, m) ==
    { [name     |-> "track_2020",
       features |-> [i \in 1..n |-> FeatureAt(i, kinds[i][1], "good", kinds[i][2])],
       images   |-> [j \in 1..m |-> ImagePosition(ids[j], <<>>, spots[j])]] :
        kinds \in {k \in [1..n -> UNION {ViewFeatureKinds(i) : i \in 1..n}] :
                      \A i \in 1..n : k[i] \in ViewFeatureKinds(i)},
        ids \in IdOrders(m),
        spots \in [1..m -> ImageSpots] }

ViewCampaigns ==
    UNION { UNION { ViewCampaignsOf(n, m) : m \in 0..(MaxViewItems - n) } :
            n \in 0..MaxViewItems }

\* an id no image of these Campaigns has
UnknownImageId == 99

MaxDistances == {DefaultMaxDistance, 40000}

\* feature_ids: "", "2, ,1,7" and "abc"
FeatureIdParams ==
    { <<>>,
      <<[int |-> 2], [blank |-> TRUE], [int |-> 1], [int |-> 7]>>,
      <<[word |-> "abc"]>> }

InitView ==
    /\ campaign \in ViewCampaigns
    /\ conversation_history = <<>>
    /\ pc = [t \in Workers |-> "idle"]
    /\ question = [t \in Workers |-> None]
    /\ messages = [t \in Workers |-> <<>>]
    /\ message = [t \in Workers |-> None]
    /\ usage = [t \in Workers |-> None]
    /\ tool_calls = [t \in Workers |-> <<>>]
    /\ idx = [t \in Workers |-> 0]
    /\ tool_uses = [t \in Workers |-> <<>>]
    /\ map_commands = [t \in Workers |-> <<>>]
    /\ requests = [t \in Workers |-> <<>>]
    /\ response = [t \in Workers |-> None]
    /\ before = [t \in Workers |-> <<>>]
    /\ clearedLen = -1
    /\ turns = 0
    /\ cached_campaign = Instance(1, campaign)
    /\ loads = 1
    /\ store_pc = [c \in Callers |-> "idle"]
    /\ got = [c \in Callers |-> IF c = Importer THEN Instance(1, campaign) ELSE None]
    /\ lookups = 1
    /\ exchange = None

ViewNearby ==
    \E image_id \in Range(Ids(campaign.images)) \cup {UnknownImageId},
       max_distance \in MaxDistances :
        NearbyImagesRequest(image_id, max_distance)

ViewProject ==
    \E image_id \in Range(Ids(campaign.images)) \cup {UnknownImageId},
       feature_ids \in FeatureIdParams :
        ProjectFeaturesRequest(image_id, feature_ids)

NextView ==
    \/ ViewNearby
    \/ ViewProject

SpecView == InitView /\ [][NextView]_vars

(***************************************************************************)
(* Properties.                                                             *)
(***************************************************************************)
ToolMessages(msgs) == SelectSeq(msgs, LAMBDA m : m.role = "tool")

\* the tool_call_id of every tool-result message of msgs, in order
ToolResultIds(msgs) == [i \in 1..Len(ToolMessages(msgs)) |-> ToolMessages(msgs)[i].tool_call_id]

CallIds(calls, n) == [i \in 1..n |-> calls[i].id]

Failing(t) == pc[t] # "failed" /\ pc'[t] = "failed"

(* C1: when a reasoner call of a turn raises (round 1, or round 2 after the
   tools have run) the endpoint answers 500, the retained transcript is what
   it was when the turn began, and the same question asked again builds the
   round-1 message list the failed turn had sent. *)
C1_FailedTurnKeepsTranscript ==
    [][\A t \in Workers :
          /\ Failing(t) =>
                /\ pc[t] \in {"round1", "round2"}
                /\ response'[t].status = 500
                /\ conversation_history' = before[t]
          /\ (pc[t] = "failed" /\ pc'[t] = "round1" /\ question'[t] = question[t]
                /\ conversation_history = before[t]) =>
                messages'[t] = requests[t][1].messages]_vars

C1_Witness ==
    /\ pc[1] = "failed"
    /\ Len(requests[1]) = 2
    /\ tool_uses[1] # <<>>
    /\ before[1] # <<>>
    /\ conversation_history = before[1]

(* C2: in a turn whose round 1 requested tools, every requested call is looped
   over once, each leaving exactly one tool-result message with its id, in
   request order, whether it returned or raised; the loop always runs to the
   end and the round-2 call is then made. *)
C2_ToolFailureNeverAborts ==
    \A t \in Workers :
        tool_calls[t] # <<>> =>
            /\ ToolResultIds(messages[t]) = CallIds(tool_calls[t], idx[t])
            /\ pc[t] \in {"tools", "round2", "store_user", "store_assistant", "done", "failed"}
            /\ pc[t] = "tools" => idx[t] < Len(tool_calls[t]) /\ Len(requests[t]) = 1
            /\ pc[t] # "tools" => idx[t] = Len(tool_calls[t])
            /\ pc[t] \notin {"tools", "round2"} =>
                  /\ Len(requests[t]) = 2
                  /\ ToolResultIds(requests[t][2].messages)
                        = CallIds(tool_calls[t], Len(tool_calls[t]))

\* bad JSON first, a missing argument second, and round 2 has been called
C2_Witness ==
    /\ pc[1] = "store_user"
    /\ Len(tool_calls[1]) = 2
    /\ tool_calls[1][1].arguments.kind = "malformed"
    /\ tool_calls[1][2].name = "show_statistics"
    /\ tool_uses[1] = <<>>
    /\ Len(requests[1]) = 2

(* C3: at most one turn is in flight on the session at any time. *)
C3_OneTurnInFlight == Cardinality({t \in Workers : InFlight(t)}) <= 1

\* models/map_commands.py: the nine command tags of the MapCommand union
CommandTags == {"highlight_features", "show_info_box", "show_statistics",
                "clear_highlights", "zoom_to_features", "show_heatmap", "add_labels",
                "highlight_image", "draw_circle"}

IsMapCommand(c) == "command" \in DOMAIN c /\ c.command \in CommandTags

\* the commands a tool result carries
Produced(result) == SelectSeq(ExtractCommands(result), IsMapCommand)

RECURSIVE ConcatProduced(_)
ConcatProduced(uses) ==
    IF uses = <<>> THEN <<>>
    ELSE Produced(Head(uses).result) \o ConcatProduced(Tail(uses))

Answered(t) == pc[t] = "done" /\ response[t] # None /\ response[t].status = 200

(* C4: the map_commands a turn returns are the commands produced by its tool
   calls, concatenated in execution order, none dropped, added or duplicated. *)
C4_CommandsAreConcatenation ==
    \A t \in Workers :
        Answered(t) =>
            response[t].body.map_commands = ConcatProduced(response[t].body.tool_uses)

(* C5: every element of the returned map_commands is a MapCommand carrying one
   of the nine command tags. *)
C5_EveryCommandIsMapCommand ==
    \A t \in Workers :
        Answered(t) =>
            \A i \in 1..Len(response[t].body.map_commands) :
                IsMapCommand(response[t].body.map_commands[i])

(* C6: the returned tool_uses hold one record per requested tool call, in
   request order, a failed call with an error-shaped result. *)
C6_OneToolUsePerCall ==
    \A t \in Workers :
        Answered(t) =>
            /\ Len(response[t].body.tool_uses) = Len(tool_calls[t])
            /\ \A i \in 1..Len(tool_calls[t]) :
                  /\ response[t].body.tool_uses[i].tool = tool_calls[t][i].name
                  /\ RunToolCall(campaign, tool_calls[t][i]).raised =>
                        "error" \in DOMAIN response[t].body.tool_uses[i].result

(* C7 as stated: the retained transcript never holds more than a fixed number
   of entries (the window of HistoryWindow entries is the only bound the code
   has). *)
C7_TranscriptBounded == Len(conversation_history) <= HistoryWindow

(* C7 as amended: what is replayed is bounded, not what is retained: the
   round-1 message list of every turn holds at most HistoryWindow retained
   entries between the system message and the question, while the retained
   transcript only grows, by at most one entry per step, until clear(). *)
C7_ReplayedWindowBounded ==
    /\ [](\A t \in Workers :
            /\ pc[t] = "round1" => Len(messages[t]) <= HistoryWindow + 2
            /\ \A i \in 1..Len(requests[t]) :
                  Len(SelectSeq(requests[t][i].messages,
                                LAMBDA m : m.role \in {"user", "assistant"}
                                           /\ "tool_calls" \notin DOMAIN m))
                      <= HistoryWindow + 1)
    /\ [][\/ conversation_history' = <<>>
          \/ /\ Len(conversation_history') >= Len(conversation_history)
             /\ Len(conversation_history') <= Len(conversation_history) + 1]_vars

\* a turn builds its messages from a transcript longer than the window
C7_Witness ==
    /\ pc[1] = "round1"
    /\ Len(before[1]) > HistoryWindow
    /\ conversation_history = before[1]

\* an index of s holding ink (neither whitespace nor the marker) before any marker
InkBeforeMarker(s) ==
    {i \in 1..Len(s) : /\ s[i] \notin Whitespace \cup {Marker}
                       /\ \A j \in 1..i : s[j] # Marker}

\* c is s cut at its first marker and trimmed: the stretch from the first to
\* the last ink before the marker
IsCleanOf(c, s) ==
    /\ InkBeforeMarker(s) # {}
    /\ c = SubSeq(s, MinOf(InkBeforeMarker(s)), MaxOf(InkBeforeMarker(s)))

HasCleanText(content) == content # None /\ InkBeforeMarker(content.text) # {}

(* C8: a successful turn leaves the transcript it found, then the user
   question, then, exactly when the final reply's text cut at the first
   "<function" and trimmed is non-empty, that clean text as an assistant entry;
   every retained entry is a {role, content} pair of role user or assistant
   with text content, and no assistant entry is empty or holds the marker. *)
C8_SuccessfulTurnAppends ==
    /\ \A i \in 1..Len(conversation_history) :
          LET e == conversation_history[i]
          IN  /\ DOMAIN e = {"role", "content"}
              /\ e.role \in {"user", "assistant"}
              /\ DOMAIN e.content = {"text"}
              /\ e.role = "assistant" =>
                    /\ e.content.text # <<>>
                    /\ Marker \notin Range(e.content.text)
                    /\ Head(e.content.text) \notin Whitespace
                    /\ e.content.text[Len(e.content.text)] \notin Whitespace
    /\ \A t \in Workers :
          (Answered(t) /\ clearedLen = -1) =>
              LET n     == Len(before[t])
                  added == SubSeq(conversation_history, n + 1, Len(conversation_history))
                  final == message[t].content
              IN  /\ SubSeq(conversation_history, 1, n) = before[t]
                  /\ Len(added) = IF HasCleanText(final) THEN 2 ELSE 1
                  /\ added[1] = UserMessage(question[t])
                  /\ HasCleanText(final) =>
                        /\ added[2].role = "assistant"
                        /\ IsCleanOf(added[2].content.text, final.text)

\* a reply with a leaked marker after its text, stored without it
C8_Witness ==
    /\ Answered(1)
    /\ clearedLen = -1
    /\ before[1] # <<>>
    /\ message[1].content = Text(<<"a", Marker>>)
    /\ tool_uses[1] # <<>>
    /\ Len(conversation_history) = Len(before[1]) + 2
    /\ conversation_history[Len(conversation_history)] = AssistantMessage(Text(<<"a">>))

(* C9: a turn begun after clear(), with nothing stored since, sends round 1 the
   system message and the new question and nothing else, whatever the
   transcript held before the clear. *)
C9_AfterClearOnlyQuestion ==
    \A t \in Workers :
        (InFlight(t) /\ clearedLen >= 0) =>
            /\ conversation_history = <<>>
            /\ pc[t] = "round1" =>
                  messages[t] = <<SystemMessage(campaign), UserMessage(question[t])>>
            /\ Len(requests[t]) >= 1 =>
                  requests[t][1].messages
                      = <<SystemMessage(campaign), UserMessage(question[t])>>

\* two entries were dropped by the clear and round 1 of the next turn was called
C9_Witness ==
    /\ pc[1] = "tools"
    /\ clearedLen = 2
    /\ Len(requests[1]) = 1

\* the reasoner calls of a turn are as the protocol says, up to the final answer
TurnProtocol(t) ==
    /\ Len(requests[t]) >= 1 =>
          /\ requests[t][1].tools = MAPPING_TOOLS
          /\ ToolMessages(requests[t][1].messages) = <<>>
    /\ pc[t] = "tools" => Len(requests[t]) = 1
    /\ (Answered(t) /\ tool_calls[t] = <<>>) =>
          /\ Len(requests[t]) = 1
          /\ response[t].body.tool_uses = <<>>
          /\ ToolMessages(messages[t]) = <<>>
    /\ (Answered(t) /\ tool_calls[t] # <<>>) =>
          /\ Len(requests[t]) = 2
          /\ requests[t][2].tools = <<>>
          /\ ToolResultIds(requests[t][2].messages)
                = CallIds(tool_calls[t], Len(tool_calls[t]))

(* C10 as stated: one reasoner call without tools and two with, the tools run
   between the two, round 2 is offered no tools, and the final answer is the
   text of the last round. *)
C10_AnswerIsLastRoundText ==
    \A t \in Workers :
        /\ TurnProtocol(t)
        /\ Answered(t) => response[t].body.answer = message[t].content

(* C10 as amended: the same, but the final answer is the last round's text
   only when that text is non-empty; when it is empty or absent the answer is
   the fixed text "I've updated the map.". *)
C10_AnswerIsTextOrFallback ==
    \A t \in Workers :
        /\ TurnProtocol(t)
        /\ Answered(t) =>
              LET final == message[t].content
              IN  /\ (final # None /\ final.text # <<>>) => response[t].body.answer = final
                  /\ (final = None \/ final.text = <<>>) =>
                        response[t].body.answer = Text(<<"I've updated the map.">>)

\* tools were run, round 2 answered with text, and that text is the answer
C10_Witness ==
    /\ Answered(1)
    /\ Len(tool_calls[1]) = 2
    /\ Len(requests[1]) = 2
    /\ response[1].body.answer = Text(<<"a">>)

\* the parsed arguments of a tool call that are a JSON object
ObjectArgs(call) == call.arguments.kind = "object"

\* the call looped over by the step from this state to the next
Executing(t) == pc[t] = "tools" /\ idx'[t] = idx[t] + 1

CurrentCall(t) == tool_calls[t][idx[t] + 1]

\* what the step appended to tool_uses
NewToolUses(t) == SubSeq(tool_uses'[t], Len(tool_uses[t]) + 1, Len(tool_uses'[t]))

\* the last message after the step: the tool result fed back to the reasoner
FedBack(t) == messages'[t][Len(messages'[t])]

NoFeatureIds(call) ==
    /\ call.name = "highlight_on_map"
    /\ ObjectArgs(call)
    /\ ("feature_ids" \notin DOMAIN call.arguments.obj \/ call.arguments.obj.feature_ids = <<>>)

(* C11: a highlight_on_map call whose feature_ids are missing or empty returns
   a result holding only an error, which is recorded and fed back, and adds
   nothing to the turn's map_commands; a turn made of such calls only returns
   no map command. *)
C11_HighlightWithoutIds ==
    /\ [][\A t \in Workers :
            (Executing(t) /\ NoFeatureIds(CurrentCall(t))) =>
                /\ map_commands'[t] = map_commands[t]
                /\ Len(NewToolUses(t)) = 1
                /\ NewToolUses(t)[1].tool = "highlight_on_map"
                /\ DOMAIN NewToolUses(t)[1].result = {"error"}
                /\ FedBack(t).role = "tool"
                /\ FedBack(t).tool_call_id = CurrentCall(t).id
                /\ FedBack(t).content = JsonDumps(NewToolUses(t)[1].result)]_vars
    /\ [](\A t \in Workers :
            (Answered(t) /\ \A i \in 1..Len(tool_calls[t]) : NoFeatureIds(tool_calls[t][i])) =>
                response[t].body.map_commands = <<>>)

\* an empty list first, a missing key second, and the turn has answered
C11_Witness ==
    /\ Answered(1)
    /\ Len(tool_calls[1]) = 2
    /\ NoFeatureIds(tool_calls[1][1])
    /\ "feature_ids" \in DOMAIN tool_calls[1][1].arguments.obj
    /\ NoFeatureIds(tool_calls[1][2])
    /\ "feature_ids" \notin DOMAIN tool_calls[1][2].arguments.obj
    /\ Len(response[1].body.tool_uses) = 2

MissingStatsArgs(call) ==
    /\ call.name = "show_statistics"
    /\ ObjectArgs(call)
    /\ ("title" \notin DOMAIN call.arguments.obj \/ "stats" \notin DOMAIN call.arguments.obj)

ErrorShaped(m, call) ==
    /\ m.role = "tool"
    /\ m.tool_call_id = call.id
    /\ DOMAIN m.content.json = {"error"}

(* C12: a show_statistics call without title or without stats adds no map
   command, is answered by an error-only tool result with its id, and the turn
   goes on: to the next call, or to round 2 after the last one, and the round-2
   request carries that error result at the call's place. *)
C12_StatisticsWithoutFields ==
    /\ [][\A t \in Workers :
            (Executing(t) /\ MissingStatsArgs(CurrentCall(t))) =>
                /\ map_commands'[t] = map_commands[t]
                /\ Len(messages'[t]) = Len(messages[t]) + 1
                /\ ErrorShaped(FedBack(t), CurrentCall(t))
                /\ pc'[t] = IF idx'[t] < Len(tool_calls[t]) THEN "tools" ELSE "round2"]_vars
    /\ [](\A t \in Workers :
            \A i \in 1..Len(tool_calls[t]) :
                (Len(requests[t]) = 2 /\ MissingStatsArgs(tool_calls[t][i])) =>
                    /\ Len(ToolMessages(requests[t][2].messages)) = Len(tool_calls[t])
                    /\ ErrorShaped(ToolMessages(requests[t][2].messages)[i], tool_calls[t][i]))

\* stats missing in the first call, title missing in the second, round 2 answered
C12_Witness ==
    /\ pc[1] = "store_user"
    /\ Len(tool_calls[1]) = 2
    /\ MissingStatsArgs(tool_calls[1][1])
    /\ "title" \in DOMAIN tool_calls[1][1].arguments.obj
    /\ MissingStatsArgs(tool_calls[1][2])
    /\ "stats" \in DOMAIN tool_calls[1][2].arguments.obj
    /\ Len(requests[1]) = 2
    /\ map_commands[1] = <<>>

\* a call of a name outside the tool table, with arguments json.loads accepts
UnknownCall(call) ==
    /\ call.name \notin Range(MAPPING_TOOLS)
    /\ call.arguments.kind # "malformed"

HasUnknownCall(t) == \E i \in 1..Len(tool_calls[t]) : UnknownCall(tool_calls[t][i])

(* C13: a call of an unknown tool is recorded and fed back with the error-only
   result "Unknown tool: <name>", adds no map command, and the loop goes on to
   the next call or to round 2; when the turn has answered, the session takes
   the next ask(), which builds its messages from the transcript as usual. *)
C13_UnknownToolNotFatal ==
    /\ [][\A t \in Workers :
            /\ (Executing(t) /\ UnknownCall(CurrentCall(t))) =>
                  /\ map_commands'[t] = map_commands[t]
                  /\ Len(NewToolUses(t)) = 1
                  /\ NewToolUses(t)[1].tool = CurrentCall(t).name
                  /\ NewToolUses(t)[1].result = [error |-> <<"Unknown tool: ", CurrentCall(t).name>>]
                  /\ ErrorShaped(FedBack(t), CurrentCall(t))
                  /\ FedBack(t).content = JsonDumps(NewToolUses(t)[1].result)
                  /\ pc'[t] = IF idx'[t] < Len(tool_calls[t]) THEN "tools" ELSE "round2"
            /\ (pc[t] = "done" /\ HasUnknownCall(t) /\ pc'[t] = "round1") =>
                  /\ messages'[t] = BuildMessages(campaign, conversation_history, question'[t])
                  /\ conversation_history' = conversation_history]_vars
    /\ [](\A t \in Workers :
            (pc[t] = "done" /\ HasUnknownCall(t)) =>
                /\ response[t].status = 200
                /\ turns < MaxTurns => ENABLED SessionAsk)

\* an unknown tool and then clear_map were called, the turn has answered with the
\* one command of clear_map, and the session can be asked again
C13_Witness ==
    /\ Answered(1)
    /\ Len(tool_calls[1]) = 2
    /\ UnknownCall(tool_calls[1][1])
    /\ tool_calls[1][2].name = "clear_map"
    /\ response[1].body.map_commands = <<[command |-> "clear_highlights"]>>
    /\ Len(conversation_history) > Len(before[1])
    /\ ENABLED SessionAsk

\* a turn whose single tool call has been looped over
Looped(t) == pc[t] = "round2" /\ Len(tool_calls[t]) = 1 /\ ObjectArgs(tool_calls[t][1])

TheCall(t) == tool_calls[t][1]

TheArgs(t) == tool_calls[t][1].arguments.obj

TheResult(t) == tool_uses[t][1].result

\* the ids of the features of c a filter selects, when the type words in
\* `sentinels` (and an absent type) mean every type and the condition "any"
\* (and an absent condition) means every condition
SelectedIds(c, args, sentinels) ==
    {f.id : f \in {g \in Range(c.features) :
        /\ \/ "feature_type" \notin DOMAIN args
           \/ args.feature_type \in sentinels
           \/ g.type = args.feature_type
        /\ \/ "condition" \notin DOMAIN args
           \/ args.condition = "any"
           \/ g.condition = args.condition}}

SeenBy(img, sel) == Range(img.feature_ids) \cap sel

\* the result r of a filtering tool is the one a selection of `sel` gives
ResultOfSelection(c, tool, r, sel) ==
    CASE tool = "show_features" ->
            /\ Range(r.feature_ids) = sel
            /\ r.count = Cardinality(sel)
      [] tool = "find_images_with_features" ->
            /\ r.feature_count = Cardinality(sel)
            /\ {r.images[i].image_id : i \in 1..Len(r.images)}
                  = {img.id : img \in {g \in Range(c.images) : SeenBy(g, sel) # {}}}
      [] tool = "find_richest_image" ->
            IF \A img \in Range(c.images) : SeenBy(img, sel) = {}
            THEN r.richest_image = None
            ELSE /\ r.richest_image # None
                 /\ \E img \in Range(c.images) :
                       /\ img.id = r.richest_image.image_id
                       /\ Range(r.richest_image.feature_ids) = SeenBy(img, sel)
                       /\ r.richest_image.feature_count = Cardinality(SeenBy(img, sel))
                       /\ \A other \in Range(c.images) :
                             Cardinality(SeenBy(other, sel)) <= Cardinality(SeenBy(img, sel))

\* the type word that lifts the type filter of a tool, as its catalog entry has it
SentinelOf(tool) == IF tool = "show_features" THEN "all" ELSE "any"

(* C14 as stated: in each of the three filtering tools the type words "all" and
   "any" both select every type, the condition "any" every condition, and any
   other value selects exactly the features equal to it. *)
C14_BothSentinelsEverywhere ==
    \A t \in Workers :
        (Looped(t) /\ TheCall(t).name \in FilterTools) =>
            ResultOfSelection(campaign, TheCall(t).name, TheResult(t),
                              SelectedIds(campaign, TheArgs(t), {"all", "any"}))

(* C14 as amended: each filtering tool has one type word that selects every
   type, the one of its catalog entry ("all" in show_features, "any" in
   find_images_with_features and find_richest_image); the other word is
   compared like a type name and selects nothing.  The condition "any" selects
   every condition in all three, and any other value selects exactly the
   features equal to it. *)
C14_SentinelPerTool ==
    \A t \in Workers :
        (Looped(t) /\ TheCall(t).name \in FilterTools) =>
            ResultOfSelection(campaign, TheCall(t).name, TheResult(t),
                              SelectedIds(campaign, TheArgs(t), {SentinelOf(TheCall(t).name)}))

\* show_features asked for the type "any" on a Campaign with features: none found
C14_Witness ==
    /\ Looped(1)
    /\ TheCall(1).name = "show_features"
    /\ "feature_type" \in DOMAIN TheArgs(1)
    /\ TheArgs(1).feature_type = "any"
    /\ Len(campaign.features) = 2
    /\ TheResult(1).count = 0

\* feature_type "all" or absent, condition "any" or absent
AsksForAll(args) ==
    /\ ("feature_type" \notin DOMAIN args \/ args.feature_type = "all")
    /\ ("condition" \notin DOMAIN args \/ args.condition = "any")

(* C15: show_features with feature_type "all" and condition "any", either or
   both of them possibly omitted, returns the ids of all the Campaign's
   features in Campaign order, their number as count, and one
   highlight_features command with the same ids, which is the turn's only map
   command. *)
C15_ShowAllFeatures ==
    \A t \in Workers :
        (Looped(t) /\ TheCall(t).name = "show_features" /\ AsksForAll(TheArgs(t))) =>
            /\ TheResult(t).feature_ids = Ids(campaign.features)
            /\ TheResult(t).count = total_features(campaign)
            /\ TheResult(t).map_command.command = "highlight_features"
            /\ TheResult(t).map_command.feature_ids = Ids(campaign.features)
            /\ map_commands[t] = <<TheResult(t).map_command>>

\* no argument at all, on a Campaign of three features
C15_Witness ==
    /\ Looped(1)
    /\ TheCall(1).name = "show_features"
    /\ DOMAIN TheArgs(1) = {}
    /\ Len(campaign.features) = 3
    /\ TheResult(1).feature_ids = <<1, 2, 3>>

(* C16 as stated: find_images_with_features returns no command and no image
   when no feature matches, and exactly two commands, highlight_features then
   highlight_image, when a feature matches. *)
C16_TwoCommandsWhenMatched ==
    \A t \in Workers :
        (Looped(t) /\ TheCall(t).name = "find_images_with_features") =>
            LET r == TheResult(t)
            IN  /\ r.feature_count = 0 => (r.map_commands = <<>> /\ r.images = <<>>)
                /\ r.feature_count > 0 =>
                      /\ Len(r.map_commands) = 2
                      /\ r.map_commands[1].command = "highlight_features"
                      /\ r.map_commands[2].command = "highlight_image"

(* C16 as amended: no command and no image when no feature matches; when a
   feature matches, a highlight_features command for the matched features,
   followed by a highlight_image command for the images that see one of them
   exactly when there is such an image: two commands, or one when no image sees
   a matched feature.  The turn's map commands are these, in this order. *)
C16_CommandPerMatchedList ==
    \A t \in Workers :
        (Looped(t) /\ TheCall(t).name = "find_images_with_features") =>
            LET r == TheResult(t)
            IN  /\ r.feature_count = 0 => (r.map_commands = <<>> /\ r.images = <<>>)
                /\ r.image_count = Len(r.images)
                /\ r.feature_count > 0 =>
                      /\ Len(r.map_commands) = IF r.images = <<>> THEN 1 ELSE 2
                      /\ r.map_commands[1].command = "highlight_features"
                      /\ Len(r.map_commands[1].feature_ids) = r.feature_count
                      /\ r.images # <<>> =>
                            /\ r.map_commands[2].command = "highlight_image"
                            /\ r.map_commands[2].image_ids
                                  = [i \in 1..Len(r.images) |-> r.images[i].image_id]
                /\ map_commands[t] = r.map_commands

\* a feature matches, the Campaign has images, none of them sees the feature
C16_Witness ==
    /\ Looped(1)
    /\ TheCall(1).name = "find_images_with_features"
    /\ TheResult(1).feature_count = 1
    /\ Len(campaign.images) = 2
    /\ TheResult(1).images = <<>>
    /\ Len(map_commands[1]) = 1

NeverFailingTools == {"show_features", "query_images", "find_images_with_features",
                      "find_richest_image", "clear_map"}

(* C17: on every Campaign and for every argument map its catalog entry allows,
   a call of show_features, query_images, find_images_with_features,
   find_richest_image or clear_map does not raise and returns a result without
   an error field, which is recorded and fed back to the reasoner. *)
C17_QueryToolsNeverFail ==
    \A t \in Workers :
        (Looped(t) /\ TheCall(t).name \in NeverFailingTools) =>
            /\ ~RunToolCall(campaign, TheCall(t)).raised
            /\ Len(tool_uses[t]) = 1
            /\ tool_uses[t][1].tool = TheCall(t).name
            /\ "error" \notin DOMAIN TheResult(t)
            /\ messages[t][Len(messages[t])].role = "tool"
            /\ messages[t][Len(messages[t])].content = JsonDumps(TheResult(t))

\* find_richest_image with a filter that matches none of the Campaign's features
C17_Witness ==
    /\ Looped(1)
    /\ TheCall(1).name = "find_richest_image"
    /\ "feature_type" \in DOMAIN TheArgs(1)
    /\ TheArgs(1).feature_type = "vegetation"
    /\ Len(campaign.features) = 2
    /\ Len(campaign.images) = 2
    /\ TheResult(1).richest_image = None

(* C18: the agent's Campaign and the cached Campaign of the store are at every
   moment the Campaign that was loaded: no step of ask(), no tool call (of the
   seven tools or of an unknown one) and no clear() changes them; and a tool
   call leaves the retained transcript as it is. *)
C18_CampaignNeverMutated ==
    /\ [](campaign = LoadedCampaign /\ cached_campaign = Instance(1, LoadedCampaign))
    /\ [][/\ campaign' = campaign
          /\ cached_campaign' = cached_campaign
          /\ \A t \in Workers :
                Executing(t) => conversation_history' = conversation_history]_vars

\* two tools have run, the turn has stored its entries and clear() has dropped them
C18_Witness ==
    /\ pc[1] = "done"
    /\ Len(tool_uses[1]) = 2
    /\ clearedLen = 2
    /\ conversation_history = <<>>
    /\ campaign.features # <<>>

\* the callers whose get_campaign() has returned
Served == {c \in Callers : got[c] # None}

(* C19: load_real_campaign() runs at most once, however the get_campaign()
   calls of the agent's construction and of the /campaign requests interleave;
   the cached Campaign, once set, is never replaced, and every call returns
   that one instance. *)
C19_LoadedOnce ==
    /\ [](/\ loads <= 1
          /\ cached_campaign # None => (loads = 1 /\ cached_campaign.instance = 1)
          /\ \A c \in Served : got[c] = cached_campaign
          /\ \A c \in Callers : store_pc[c] = "load" => c = Importer)
    /\ [][cached_campaign # None => cached_campaign' = cached_campaign]_vars

\* the agent and both workers hold the instance of the one load, and one
\* worker is inside get_campaign() again while the other has just returned
C19_Witness ==
    /\ loads = 1
    /\ Served = Callers
    /\ lookups = MaxLookups
    /\ \E c \in Workers : store_pc[c] = "return"

(* C20: in the Campaign the loader builds, every id in an image's feature_ids
   is the id of a feature of the Campaign and every id in a feature's image_ids
   is the id of an image of the Campaign. *)
C20_ReferencesResolve ==
    campaign # None =>
        /\ \A i \in 1..Len(campaign.images) :
              Range(campaign.images[i].feature_ids) \subseteq Range(Ids(campaign.features))
        /\ \A i \in 1..Len(campaign.features) :
              Range(campaign.features[i].image_ids) \subseteq Range(Ids(campaign.images))

\* the number of the selected features the i-th image of c sees
CountAt(c, i, sel) == Cardinality(SeenBy(c.images[i], sel))

\* the largest such number over the images of c (0 when there is no image)
MaxCount(c, sel) == MaxOf({0} \cup {CountAt(c, i, sel) : i \in 1..Len(c.images)})

\* the position in c.images of the first image that reaches MaxCount
FirstRichest(c, sel) == MinOf({i \in 1..Len(c.images) : CountAt(c, i, sel) = MaxCount(c, sel)})

(* C22: find_richest_image returns an image whose number of selected features
   is the maximum over the Campaign's images, the first such image in Campaign
   order when several reach it, with that maximum as feature_count; when no
   image sees a selected feature the result has richest_image None and no
   error. *)
C22_RichestIsFirstMaximum ==
    \A t \in Workers :
        (Looped(t) /\ TheCall(t).name = "find_richest_image") =>
            LET sel == SelectedIds(campaign, TheArgs(t), {"any"})
                r   == TheResult(t)
            IN  /\ Len(tool_uses[t]) = 1
                /\ "error" \notin DOMAIN r
                /\ IF MaxCount(campaign, sel) = 0
                   THEN r.richest_image = None
                   ELSE /\ r.richest_image # None
                        /\ r.richest_image.image_id
                              = campaign.images[FirstRichest(campaign, sel)].id
                        /\ r.richest_image.feature_count = MaxCount(campaign, sel)

\* three images, the first sees nothing, the second and the third see the one
\* feature: the second is returned
C22_Witness ==
    /\ Looped(1)
    /\ TheCall(1).name = "find_richest_image"
    /\ Len(campaign.images) = 3
    /\ CountAt(campaign, 1, SelectedIds(campaign, TheArgs(1), {"any"})) = 0
    /\ CountAt(campaign, 2, SelectedIds(campaign, TheArgs(1), {"any"})) = 1
    /\ CountAt(campaign, 3, SelectedIds(campaign, TheArgs(1), {"any"})) = 1
    /\ TheResult(1).richest_image.image_id = 12

\* the images of c that see a selected feature, in Campaign order
Qualifying(c, sel) == SelectSeq(c.images, LAMBDA img : SeenBy(img, sel) # {})

(* C23: find_images_with_features lists the Campaign images that see at least
   one selected feature, each once and in Campaign image order, each with the
   number of selected features it sees as feature_count; image_count is the
   length of the list. *)
C23_ImagesWithFeaturesListed ==
    \A t \in Workers :
        (Looped(t) /\ TheCall(t).name = "find_images_with_features") =>
            LET sel == SelectedIds(campaign, TheArgs(t), {"any"})
                q   == Qualifying(campaign, sel)
                r   == TheResult(t)
            IN  /\ Len(r.images) = Len(q)
                /\ \A k \in 1..Len(q) :
                      /\ r.images[k].image_id = q[k].id
                      /\ r.images[k].feature_count = Cardinality(SeenBy(q[k], sel))
                /\ r.image_count = Len(r.images)

\* of two images the second alone sees the two selected features
C23_Witness ==
    /\ Looped(1)
    /\ TheCall(1).name = "find_images_with_features"
    /\ Len(campaign.images) = 2
    /\ Len(TheResult(1).images) = 1
    /\ TheResult(1).images[1].image_id = 12
    /\ TheResult(1).images[1].feature_count = 2

\* the messages of the round-1 request of the turn of t
Round1Messages(t) == requests[t][1].messages

\* how many retained entries the turn of t replays
Replayed(t) == IF Len(before[t]) < HistoryWindow THEN Len(before[t]) ELSE HistoryWindow

(* C24: the message list of round 1 is one system message, then the last
   min(10, n) entries of the n-entry retained transcript in stored order, then
   the new question; no older entry is sent.  The list ask() builds is the
   list the round-1 request carries. *)
C24_Round1MessageList ==
    \A t \in Workers :
        (pc[t] # "idle" /\ requests[t] # <<>>) =>
            LET msgs == Round1Messages(t)
                n    == Len(before[t])
                k    == Replayed(t)
            IN  /\ requests[t][1].tools = MAPPING_TOOLS
                /\ Len(msgs) = k + 2
                /\ msgs[1] = SystemMessage(campaign)
                /\ \A i \in 1..k : msgs[1 + i] = before[t][n - k + i]
                /\ msgs[k + 2] = UserMessage(question[t])
                /\ \A i \in 1..(n - k), j \in 2..(k + 1) :
                      (before[t][i] \notin {before[t][h] : h \in (n - k + 1)..n})
                          => msgs[j] # before[t][i]

\* round 1 was sent with a transcript of twelve entries retained: the first
\* two stay behind
C24_Witness ==
    /\ requests[1] # <<>>
    /\ Len(before[1]) = HistoryWindow + 2
    /\ Len(Round1Messages(1)) = HistoryWindow + 2
    /\ Round1Messages(1)[2] = before[1][3]
    /\ before[1][1] # before[1][3]

(* C25: in the message list of the round-2 request every requested tool call,
   returned or raised, is an adjacent pair after the round-1 messages: the
   assistant message carrying the call, then the tool message with the call's
   id; the pairs follow the order of the calls. *)
C25_ToolCallPairs ==
    \A t \in Workers :
        Len(requests[t]) = 2 =>
            LET msgs == requests[t][2].messages
                base == Len(Round1Messages(t))
                n    == Len(tool_calls[t])
            IN  /\ Len(msgs) = base + 2 * n
                /\ \A i \in 1..n :
                      /\ msgs[base + 2 * i - 1].role = "assistant"
                      /\ msgs[base + 2 * i - 1].tool_calls = <<tool_calls[t][i]>>
                      /\ msgs[base + 2 * i].role = "tool"
                      /\ msgs[base + 2 * i].tool_call_id = tool_calls[t][i].id

\* the turn of t stores its answer in this step
StoresAnswer(t) ==
    /\ pc[t] = "store_assistant"
    /\ pc'[t] = "done"
    /\ Len(conversation_history') = Len(conversation_history) + 1

(* C30: in the retained transcript of the shared agent an assistant entry
   never follows another assistant entry, and a turn's answer is stored right
   after that turn's own question, however the /ask requests interleave. *)
C30_AnswerFollowsOwnQuestion ==
    /\ [](\A i \in 2..Len(conversation_history) :
            conversation_history[i].role = "assistant"
                => conversation_history[i - 1].role = "user")
    /\ [][\A t \in Workers :
            (StoresAnswer(t) /\ conversation_history # <<>>) =>
                conversation_history[Len(conversation_history)]
                    = UserMessage(question[t])]_vars

\* the last viewer request was for `path`
Asked(path) == exchange # None /\ exchange.request.path = path

\* the image the last viewer request names, None when the Campaign has none
AskedImage == FindImage(campaign, exchange.request.image_id)

(* C21: a /nearby/images or /project/features request for an image id the
   Campaign does not have is answered with status 404 and the detail
   'Image <id> not found'. *)
C21_UnknownImageIs404 ==
    (exchange # None /\ AskedImage = None) =>
        /\ exchange.response.status = 404
        /\ exchange.response.detail = ImageNotFound(exchange.request.image_id).detail

\* the positions in the image list of the images farther than 0 and no
\* farther than m from the image src
InReach(c, src, m) ==
    {i \in 1..Len(c.images) :
        /\ Distance(src.coordinates, c.images[i].coordinates) > 0
        /\ Distance(src.coordinates, c.images[i].coordinates) <= m}

\* the entries of the last /nearby/images answer
NearbyResult == exchange.response.body.nearby_images

(* C26: the /nearby/images answer for a source image s of the Campaign and a
   maximum distance m lists exactly the images at distance d from s with
   0 < d <= m, each once: never s, never an image at distance 0 from s. *)
C26_NearbyWithinReach ==
    (Asked("/nearby/images") /\ AskedImage # None) =>
        LET reach == InReach(campaign, AskedImage, exchange.request.max_distance)
        IN  /\ exchange.response.status = 200
            /\ Len(NearbyResult) = Cardinality(reach)
            /\ {NearbyResult[k].image_id : k \in 1..Len(NearbyResult)}
                  = {campaign.images[i].id : i \in reach}
            /\ \A k \in 1..Len(NearbyResult) :
                  /\ NearbyResult[k].image_id # exchange.request.image_id
                  /\ \A i \in 1..Len(campaign.images) :
                        campaign.images[i].id = NearbyResult[k].image_id =>
                            campaign.images[i].coordinates # AskedImage.coordinates

\* of three images one stands where the source stands, one 44.5 m away and
\* in reach: the answer lists the last alone
C26_Witness ==
    /\ Asked("/nearby/images")
    /\ exchange.response.status = 200
    /\ Len(campaign.images) = 3
    /\ \E i \in 1..3 : /\ campaign.images[i].id # exchange.request.image_id
                        /\ campaign.images[i].coordinates = AskedImage.coordinates
    /\ Len(NearbyResult) = 1

(* C27: the /nearby/images answer is in ascending order of distance, entries
   of equal distance in ascending order of image id. *)
C27_SortedByDistanceThenId ==
    (Asked("/nearby/images") /\ exchange.response.status = 200) =>
        \A i, j \in 1..Len(NearbyResult) :
            i < j =>
                \/ NearbyResult[i].distance < NearbyResult[j].distance
                \/ /\ NearbyResult[i].distance = NearbyResult[j].distance
                   /\ NearbyResult[i].image_id < NearbyResult[j].image_id

\* the feature ids the last /project/features request names
RequestedIds == Range(ParseIds(exchange.request.feature_ids).value)

\* its feature_ids parameter is a list of numbers
WellFormedIds == ~ParseIds(exchange.request.feature_ids).raised

\* the hotspots of the last /project/features answer
HotspotResult == exchange.response.body.hotspots

\* the features of c the request names that stand within m of the image img
Projectable(c, img, m) ==
    {f \in Range(c.features) :
        /\ f.id \in RequestedIds
        /\ Distance(img.coordinates, f.coordinates) <= m}

(* C28: the /project/features answer for an image of the Campaign holds one
   hotspot for every requested feature id that is the id of a feature at most
   100 m from the image, and nothing else: a requested feature farther away is
   absent, and a requested id no feature has raises nothing. *)
C28_HotspotPerFeatureInRange ==
    (Asked("/project/features") /\ AskedImage # None /\ WellFormedIds) =>
        LET near == Projectable(campaign, AskedImage, ProjectionCutoff)
        IN  /\ exchange.response.status = 200
            /\ Len(HotspotResult) = Cardinality(near)
            /\ {HotspotResult[k].feature_id : k \in 1..Len(HotspotResult)}
                  = {f.id : f \in near}

\* ids 2, 1 and 7 are asked for: feature 1 is 11 m away, feature 2 is 105.6 m
\* away, no feature has id 7, and the answer holds the hotspot of feature 1
C28_Witness ==
    /\ Asked("/project/features")
    /\ AskedImage # None
    /\ WellFormedIds
    /\ RequestedIds = {1, 2, 7}
    /\ Len(campaign.features) = 2
    /\ Distance(AskedImage.coordinates, campaign.features[2].coordinates) > ProjectionCutoff
    /\ exchange.response.status = 200
    /\ Len(HotspotResult) = 1
    /\ HotspotResult[1].feature_id = 1

\* the adjustment by type, in hundredths of a degree: ground features, signs,
\* overhead lights, mid-height objects, every other type
OffsetByType(type) ==
    CASE type \in {"pavement_damage", "pavement_patch", "road_marking", "manhole_cover",
                   "drainage_grate"} -> -1500
      [] type = "traffic_sign" -> 500
      [] type \in {"street_light", "traffic_light"} -> 1500
      [] type \in {"utility_pole", "fire_hydrant", "trash_bin"} -> 0
      [] OTHER -> 0

\* the angle under which the feature f stands above the horizon of the image img
BaseAngle(img, f) ==
    Atan2((Elevation(f.coordinates) - Elevation(img.coordinates)) * 1000,
          Distance(img.coordinates, f.coordinates))

(* C29: the elevation angle of every hotspot is the base angle of its feature
   plus the adjustment of the feature's type: -15 degrees for pavement_damage,
   pavement_patch, road_marking, manhole_cover and drainage_grate, +5 for
   traffic_sign, +15 for street_light and traffic_light, 0 for utility_pole,
   fire_hydrant and trash_bin and for every other type of Feature.type. *)
C29_ElevationOffsetByType ==
    (Asked("/project/features") /\ exchange.response.status = 200) =>
        \A k \in 1..Len(HotspotResult) :
            \E f \in Range(campaign.features) :
                /\ f.id = HotspotResult[k].feature_id
                /\ f.type = HotspotResult[k].feature_type
                /\ f.type \in FeatureTypes
                /\ HotspotResult[k].vlookat
                      = BaseAngle(AskedImage, f) + OffsetByType(f.type)

\* a street light 3 m up and a sign on the ground, both 11 m from the image
C29_Witness ==
    /\ Asked("/project/features")
    /\ exchange.response.status = 200
    /\ Len(HotspotResult) = 2
    /\ HotspotResult[1].feature_type = "street_light"
    /\ HotspotResult[1].vlookat > 1500
    /\ HotspotResult[2].feature_type = "traffic_sign"
    /\ HotspotResult[2].vlookat = 500

====
